---- MODULE Spec2Model ----
(***************************************************************************)
(* Model of the AI Bootcamp backend (aibc_auth): the auth service (login,  *)
(* lockout, refresh-token rotation) and the progress service (module       *)
(* completion, pathway percentage, learning streak, achievements).         *)
(* The relational tables are the state; every request handler is one       *)
(* action, except in the race specifications, where a handler is split at  *)
(* its database round trips.                                               *)
(***************************************************************************)
EXTENDS Integers, FiniteSets, Sequences, TLC

VARIABLES
    users,            \* users table: user id -> row
    refresh_tokens,   \* refresh_tokens table: set of rows
    issued,           \* Token responses handed to clients, with what was presented to get them
    now,              \* datetime.now(timezone.utc), in minutes
    ticks,            \* number of clock advances so far
    next_jti,         \* next fresh jti (secrets.token_urlsafe)
    auth_last,        \* the last auth request: inputs, database state before it, response
    rpc,              \* refresh requests in flight (race specification): process -> position
    today,            \* date.today(), in days
    pathways,         \* pathways table: pathway id -> total_modules
    user_progress,    \* user_progress table: <<user, pathway>> -> row
    module_completions,    \* module_completions table: <<user, module, pathway>> -> number of rows
    resource_completions,  \* resource_completions table: <<user, resource>> -> row
    learning_streaks,      \* learning_streaks table: user -> row
    user_achievements,     \* user_achievements table: <<user, achievement>> -> number of rows
    prog_last,        \* the progress request of the last step: inputs and response
    cpc,              \* module-complete requests in flight (race specification)
    upload_rules,     \* resources table: resource -> accepted_file_types, max_file_size_mb
    utc_second,       \* datetime.now(timezone.utc), in seconds
    resource_submissions,  \* resource_submissions table: sequence of rows, the id is the index
    gcs_objects,      \* the storage bucket: gcs path -> number of the upload that wrote it
    module_approvals, \* module_completions review columns: <<user, module, pathway>> -> row
    sub_last,         \* the submission or review request of the last step: inputs and response
    email_logs,       \* email_logs table: sequence of rows, the id is the index
    mail,             \* the send_email call in progress: position, attempts, waits, result
    cache_redis,      \* CacheManager._redis: "None" or "client"
    cache_store,      \* the Redis keys: key -> serialized value
    cache_last,       \* the cache call of the last step: inputs and result
    user_table,       \* users table as it grows: sequence of rows, the id is the index
    oauth_accounts,   \* oauth_accounts table: sequence of rows
    oauth_last,       \* the signup or OAuth request of the last step: inputs and response
    cprow             \* the user_progress row each module-complete request in flight has loaded

auth_vars == <<users, refresh_tokens, issued, now, ticks, next_jti, auth_last, rpc>>

prog_tables == <<user_progress, module_completions, learning_streaks, user_achievements>>

prog_vars == <<today, pathways, user_progress, module_completions, resource_completions,
               learning_streaks, user_achievements, prog_last, cpc>>

sub_vars == <<upload_rules, utc_second, resource_submissions, gcs_objects,
              module_approvals, sub_last>>

mail_vars == <<email_logs, mail>>

cache_vars == <<cache_redis, cache_store, cache_last>>
oauth_vars == <<user_table, oauth_accounts, oauth_last>>
svc_vars == <<cache_vars, oauth_vars, cprow>>
ext_vars == <<sub_vars, mail_vars, svc_vars>>

vars == <<auth_vars, prog_vars, ext_vars>>

----------------------------------------------------------------------------
(* Bounds *)

MaxTicks == 1
MaxTokens == 2
MaxRaceTokens == 3

(* Program constants *)

MAX_LOGIN_ATTEMPTS == 5
LOCKOUT_DURATION_MINUTES == 30
ACCESS_TOKEN_EXPIRE_MINUTES == 60
REFRESH_TOKEN_EXPIRE_DAYS == 7

NULL == 0 - 1

Users == {"u1", "u2"}
Emails == Users \cup {"nobody"}
Passwords == {"pw1", "pw2"}
RProcs == {"r1", "r2"}

\* timedelta(days=REFRESH_TOKEN_EXPIRE_DAYS) and timedelta(minutes=...) in minutes
refresh_token_expires == REFRESH_TOKEN_EXPIRE_DAYS * 24 * 60
access_token_expires == ACCESS_TOKEN_EXPIRE_MINUTES

\* The clock advances to the end of a lockout that starts now, or to the end of
\* the lifetime of a refresh token issued now.
TickSteps == {LOCKOUT_DURATION_MINUTES, refresh_token_expires}

----------------------------------------------------------------------------
(* core/security.py *)

\* pwd_context.hash / pwd_context.verify: bcrypt, abstracted to a tagged value
get_password_hash(password) == <<"bcrypt", password>>

\* the value the coroutine verify_password resolves to when awaited
verify_password(plain_password, hashed_password) ==
    hashed_password = get_password_hash(plain_password)

\* hashlib.sha256(token.encode()).hexdigest(): injective on the tokens modelled
hash_token(token) == <<"sha256", token>>

create_access_token(sub, t) ==
    [type |-> "access", sub |-> sub, jti |-> 0, exp |-> t + access_token_expires]

create_refresh_token(sub, t, jti) ==
    [type |-> "refresh", sub |-> sub, jti |-> jti, exp |-> t + refresh_token_expires]

\* a token not signed with the service's keys
Forged == [type |-> "forged", sub |-> "nobody", jti |-> 0, exp |-> 0]

\* what a login presents instead of a refresh token
PasswordGrant == [type |-> "password", sub |-> "nobody", jti |-> 0, exp |-> 0]

\* jwt.decode with the key of token_type: TRUE when it returns a payload,
\* FALSE when verify_token raises 401 (bad signature, expired, wrong type)
verify_token(token, token_type, t) ==
    /\ token.type = token_type
    /\ token.exp >= t

----------------------------------------------------------------------------
(* crud/user.py *)

get_user_by_email(email) == IF email \in DOMAIN users THEN {email} ELSE {}

get_user_by_id(user_id) == IF user_id \in DOMAIN users THEN {user_id} ELSE {}

update_last_login(row) ==
    [row EXCEPT !.failed_login_attempts = 0, !.locked_until = NULL]

increment_failed_login(row, t) ==
    LET failed_attempts == row.failed_login_attempts + 1
    IN  IF failed_attempts >= MAX_LOGIN_ATTEMPTS
        THEN [row EXCEPT !.failed_login_attempts = failed_attempts,
                         !.locked_until = t + LOCKOUT_DURATION_MINUTES]
        ELSE [row EXCEPT !.failed_login_attempts = failed_attempts]

save_refresh_token(rows, user_id, token, expires_at) ==
    rows \cup {[token_hash |-> hash_token(token), user_id |-> user_id,
                revoked_at |-> NULL, expires_at |-> expires_at]}

get_refresh_token(rows, token, t) ==
    {r \in rows : /\ r.token_hash = hash_token(token)
                  /\ r.revoked_at = NULL
                  /\ r.expires_at > t}

\* the UPDATE never reaches the table
revoke_refresh_token_lost(rows, token, t) == rows

revoke_refresh_token(rows, token, t) ==
    {IF r.token_hash = hash_token(token) THEN [r EXCEPT !.revoked_at = t] ELSE r
        : r \in rows}

----------------------------------------------------------------------------
(* models/progress.py, models/resource.py: the tables of the progress service *)

Learners == {"u1"}
Pathways == {"p1", "p2"}
Modules == {"m1", "m2", "m3"}
Resources == {"r1", "r2", "r3"}
CProcs == {"c1", "c2"}

\* Module.pathway_id
module_pathway == [m \in Modules |-> IF m = "m3" THEN "p2" ELSE "p1"]

\* Resource rows: m1 has a plain resource and one that requires an upload,
\* m3 has a plain resource, m2 has no resources
resource_catalog ==
    [r \in Resources |->
        [module_id |-> IF r = "r3" THEN "m3" ELSE "m1",
         requires_upload |-> (r = "r2")]]

\* Achievement rows (the catalog), by id
achievement_catalog ==
    [a \in {"a-modules", "a-pathway", "a-streak", "a-time", "pathway-starter"} |->
        CASE a = "a-modules" -> [requirement_type |-> "modules_completed", requirement_value |-> 2]
          [] a = "a-pathway" -> [requirement_type |-> "pathways_completed", requirement_value |-> 1]
          [] a = "a-streak"  -> [requirement_type |-> "streak_days", requirement_value |-> 2]
          [] a = "a-time"    -> [requirement_type |-> "time_spent", requirement_value |-> 30]
          [] OTHER           -> [requirement_type |-> "custom", requirement_value |-> NULL]]

Achievements == DOMAIN achievement_catalog

\* no row
NoProgress == [exists |-> FALSE, progress_percentage |-> 0, completed_modules |-> 0,
               total_time_spent_minutes |-> 0, completed_at |-> NULL]

NoStreak == [exists |-> FALSE, current_streak |-> 0, longest_streak |-> 0,
             last_activity_date |-> NULL]

NoResourceCompletion == [status |-> "absent", submission_count |-> 0]

NoArgs == [module_id |-> "", pathway_id |-> "", resource_id |-> "", achievement_id |-> ""]

EmptyTables ==
    /\ user_progress = [k \in Learners \X Pathways |-> NoProgress]
    /\ module_completions = [k \in Learners \X Modules \X Pathways |-> 0]
    /\ learning_streaks = [u \in Learners |-> NoStreak]
    /\ user_achievements = [k \in Learners \X Achievements |-> 0]
    /\ prog_last = [op |-> "none", user |-> "u1", args |-> NoArgs, code |-> 0,
                    streak_calls |-> 0, result |-> "none"]
    /\ cpc = [c \in CProcs |-> [pc |-> "idle", user |-> "u1", args |-> NoArgs, minutes |-> NULL]]

\* a string column or field holding NULL / None
NONE == "None"

\* ModuleCompletion.approval_status default 'pending', reviewed_by NULL
\* (models/progress.py:61-62)
NoApproval == [approval_status |-> "pending", reviewed_by |-> NONE]

NoSubArgs == [id |-> 0, completion_id |-> <<>>, resource_id |-> "", file_name |-> <<>>,
              file_size |-> 0, submission_status |-> NONE, grade |-> NONE]

\* no call of send_email yet: the position in the call, the submission it is
\* about, its EmailLog row, the loop variable, the SMTP attempts made and
\* succeeded, the waits slept and the value returned
NoMail == [pc |-> "idle", calls |-> 0, about |-> 0, log_id |-> 0, attempt |-> 0,
           attempts_made |-> 0, succeeded |-> 0, waits |-> <<>>, returned |-> "none"]

\* no submission, no stored object, no review, no email
SubmissionsIdle ==
    /\ utc_second = 0
    /\ resource_submissions = <<>>
    /\ gcs_objects = {}
    /\ module_approvals = [k \in Learners \X Modules \X Pathways |-> NoApproval]
    /\ sub_last = [op |-> "none", user |-> "u1", args |-> NoSubArgs, code |-> 0]

MailIdle ==
    /\ email_logs = <<>>
    /\ mail = NoMail

\* Resource.accepted_file_types and Resource.max_file_size_mb of the one
\* resource that requires an upload
DefaultUploadRules ==
    upload_rules = [accepted_file_types |-> <<>>, max_file_size_mb |-> 1]

\* the submission and email services untouched
\* keys of the cache and the stored form of a key that is absent
CacheKeys == {<<"user_progress", "k1">>, <<"user_progress", "k2">>, <<"pathways", "k1">>}
Absent == <<>>

NoCacheCall == [op |-> "none", key |-> <<"", "">>, failed |-> FALSE, returned |-> NONE,
                count |-> 0, func_calls |-> 0, func_result |-> NONE]

\* no Redis connection made, no key stored
CacheIdle ==
    /\ cache_redis = NONE
    /\ cache_store = [k \in CacheKeys |-> Absent]
    /\ cache_last = NoCacheCall

NoSignup == [op |-> "none", email |-> NONE, sub |-> NONE, code |-> 0, token_sub |-> 0]

\* no user signed up, no OAuth account
SignupIdle ==
    /\ user_table = <<>>
    /\ oauth_accounts = <<>>
    /\ oauth_last = NoSignup

\* no module-complete request has loaded a row
LoadedIdle == cprow = [c \in CProcs |-> NoProgress]

SvcIdle == CacheIdle /\ SignupIdle /\ LoadedIdle

ExtIdle == DefaultUploadRules /\ SubmissionsIdle /\ MailIdle /\ SvcIdle

\* the progress service untouched, for the specifications of the auth service
ProgressIdle ==
    /\ today = 0
    /\ pathways = [p \in Pathways |-> 1]
    /\ resource_completions = [k \in Learners \X Resources |-> NoResourceCompletion]
    /\ EmptyTables
    /\ ExtIdle

----------------------------------------------------------------------------
(* api/v1/auth.py: the handlers, one action per request *)

NoToken == [type |-> "none", sub |-> "nobody", jti |-> 0, exp |-> 0]

NoRow == [password_hash |-> get_password_hash("pw1"), account_status |-> "none",
          failed_login_attempts |-> 0, locked_until |-> NULL]

\* auth.py:71 tests `not verify_password(...)` without awaiting the coroutine
\* function: the operand is the coroutine object, which is truthy whatever the
\* password check would resolve to.
coroutine_truth(awaited_result) == TRUE

\* the tokens a client can present: every token ever handed out, or a forged one
Presentable ==
    {i.refresh : i \in issued} \cup {i.access : i \in issued} \cup {Forged}

\* get_current_user: a bearer access token of an active user
Authenticated(u) ==
    /\ \E i \in issued : i.access.sub = u /\ verify_token(i.access, "access", now)
    /\ get_user_by_id(u) # {}
    /\ users[u].account_status = "active"

AuthLog(op, who, pw_ok, presented, code, granted) ==
    [op |-> op, who |-> who, password_ok |-> pw_ok, presented |-> presented,
     code |-> code, granted |-> granted, at |-> now,
     pre_user |-> IF who \in DOMAIN users THEN users[who] ELSE NoRow,
     pre_locked |-> who \in DOMAIN users /\ users[who].locked_until > now,
     pre_rows |-> Cardinality(refresh_tokens),
     pre_issued |-> Cardinality(issued)]

\* lines 86-113 of login and 142-167 of refresh_token: create both tokens, save
\* the refresh token's hash, answer with the pair
IssueTokens(rows, user_id, presented, max_jti) ==
    LET new_refresh == create_refresh_token(user_id, now, next_jti)
        new_access == create_access_token(user_id, now)
    IN  /\ next_jti <= max_jti
        /\ next_jti' = next_jti + 1
        /\ refresh_tokens' = save_refresh_token(rows, user_id, new_refresh,
                                                now + refresh_token_expires)
        /\ issued' = issued \cup {[refresh |-> new_refresh, access |-> new_access,
                                   via |-> presented]}

\* auth.py:65 `user.locked_until and user.locked_until > datetime.now(timezone.utc)`
is_locked_inverted(user, t) == user.locked_until # NULL /\ user.locked_until < t

is_locked(user, t) == user.locked_until # NULL /\ user.locked_until > t

Login(email, password) ==
    LET found == get_user_by_email(email)
        user_id == CHOOSE u \in found : TRUE
        user == users[user_id]
        pw_ok == found # {} /\ verify_password(password, user.password_hash)
    IN
    /\ UNCHANGED <<now, ticks, rpc, prog_vars, ext_vars>>
    /\ IF found = {}
       THEN /\ auth_last' = AuthLog("login", email, pw_ok, PasswordGrant, 401, NoToken)
            /\ UNCHANGED <<users, refresh_tokens, issued, next_jti>>
       ELSE IF is_locked(user, now)
       THEN /\ auth_last' = AuthLog("login", email, pw_ok, PasswordGrant, 423, NoToken)
            /\ UNCHANGED <<users, refresh_tokens, issued, next_jti>>
       ELSE IF ~coroutine_truth(verify_password(password, user.password_hash))
       THEN /\ users' = [users EXCEPT ![user_id] = increment_failed_login(user, now)]
            /\ auth_last' = AuthLog("login", email, pw_ok, PasswordGrant, 401, NoToken)
            /\ UNCHANGED <<refresh_tokens, issued, next_jti>>
       ELSE IF user.account_status # "active"
       THEN /\ auth_last' = AuthLog("login", email, pw_ok, PasswordGrant, 403, NoToken)
            /\ UNCHANGED <<users, refresh_tokens, issued, next_jti>>
       ELSE /\ users' = [users EXCEPT ![user_id] = update_last_login(user)]
            /\ IssueTokens(refresh_tokens, user_id, PasswordGrant, MaxTokens)
            /\ auth_last' = AuthLog("login", email, pw_ok, PasswordGrant, 200,
                                    create_refresh_token(user_id, now, next_jti))

\* POST /refresh, the whole handler in one step (requests served one at a time)
Refresh(token) ==
    LET stored == get_refresh_token(refresh_tokens, token, now)
        stored_token == CHOOSE r \in stored : TRUE
        found == get_user_by_id(stored_token.user_id)
        ok == /\ verify_token(token, "refresh", now)
              /\ Cardinality(stored) = 1
              /\ found # {}
              /\ users[stored_token.user_id].account_status = "active"
    IN
    /\ UNCHANGED <<users, now, ticks, rpc, prog_vars, ext_vars>>
    /\ IF ok
       THEN /\ IssueTokens(revoke_refresh_token(refresh_tokens, token, now),
                           stored_token.user_id, token, MaxTokens)
            /\ auth_last' = AuthLog("refresh", token.sub, FALSE, token, 200,
                                    create_refresh_token(stored_token.user_id, now, next_jti))
       ELSE /\ auth_last' = AuthLog("refresh", token.sub, FALSE, token, 401, NoToken)
            /\ UNCHANGED <<refresh_tokens, issued, next_jti>>

Logout(u, token) ==
    /\ Authenticated(u)
    /\ refresh_tokens' = revoke_refresh_token(refresh_tokens, token, now)
    /\ auth_last' = AuthLog("logout", u, FALSE, token, 200, NoToken)
    /\ UNCHANGED <<users, issued, next_jti, now, ticks, rpc, prog_vars, ext_vars>>

Tick ==
    /\ ticks < MaxTicks
    /\ \E d \in TickSteps : now' = now + d
    /\ ticks' = ticks + 1
    /\ UNCHANGED <<users, refresh_tokens, issued, next_jti, auth_last, rpc, prog_vars, ext_vars>>

\* The users table as the service finds it. u1 is an active account, either
\* with no failed login or locked by a MAX_LOGIN_ATTEMPTS-th failure at minute
\* 0; u2 has no failed login and is active or suspended.
InitUsers ==
    {[u \in Users |->
        [password_hash |-> get_password_hash("pw1"),
         account_status |-> IF u = "u1" THEN "active" ELSE s,
         failed_login_attempts |-> IF u = "u1" THEN f.n ELSE 0,
         locked_until |-> IF u = "u1" THEN f.until ELSE NULL]]
        : s \in {"active", "suspended"},
          f \in {[n |-> 0, until |-> NULL],
                 [n |-> MAX_LOGIN_ATTEMPTS, until |-> LOCKOUT_DURATION_MINUTES]}}

AuthInit ==
    /\ users \in InitUsers
    /\ refresh_tokens = {}
    /\ issued = {}
    /\ now = 0
    /\ ticks = 0
    /\ next_jti = 1
    /\ auth_last = [op |-> "none", who |-> "nobody", password_ok |-> FALSE,
                    presented |-> NoToken, code |-> 0, granted |-> NoToken, at |-> 0,
                    pre_user |-> NoRow, pre_locked |-> FALSE, pre_rows |-> 0,
                    pre_issued |-> 0]
    /\ rpc = [p \in RProcs |-> [pc |-> "idle", token |-> NoToken, user_id |-> "nobody"]]

AuthNext ==
    \/ \E e \in Emails, p \in Passwords : Login(e, p)
    \/ \E t \in Presentable : Refresh(t)
    \/ \E u \in Users, t \in Presentable : Logout(u, t)
    \/ Tick

\* the auth service at the start, beside a progress service without rows
AuthServiceInit == AuthInit /\ ProgressIdle

AuthSpec == AuthServiceInit /\ [][AuthNext]_vars

----------------------------------------------------------------------------
(* POST /refresh with its database round trips as separate steps: two
   requests r1, r2 are served concurrently, each on its own session. *)

\* auth.py:122-138: verify_token, get_refresh_token, get_user_by_id
RefreshLookup(p, token) ==
    LET stored == get_refresh_token(refresh_tokens, token, now)
        stored_token == CHOOSE r \in stored : TRUE
        found == get_user_by_id(stored_token.user_id)
        ok == /\ verify_token(token, "refresh", now)
              /\ Cardinality(stored) = 1
              /\ found # {}
              /\ users[stored_token.user_id].account_status = "active"
    IN
    /\ rpc[p].pc = "idle"
    /\ UNCHANGED <<users, refresh_tokens, issued, next_jti, now, ticks, prog_vars, ext_vars>>
    /\ IF ok
       THEN /\ rpc' = [rpc EXCEPT ![p] = [pc |-> "revoke", token |-> token,
                                          user_id |-> stored_token.user_id]]
            /\ UNCHANGED auth_last
       ELSE /\ auth_last' = AuthLog("refresh", token.sub, FALSE, token, 401, NoToken)
            /\ UNCHANGED rpc

\* auth.py:140: revoke_refresh_token and its commit
RefreshRevoke(p) ==
    /\ rpc[p].pc = "revoke"
    /\ refresh_tokens' = revoke_refresh_token(refresh_tokens, rpc[p].token, now)
    /\ rpc' = [rpc EXCEPT ![p].pc = "save"]
    /\ UNCHANGED <<users, issued, next_jti, now, ticks, auth_last, prog_vars, ext_vars>>

\* auth.py:142-167: create the tokens, save_refresh_token and its commit, answer
RefreshSave(p) ==
    /\ rpc[p].pc = "save"
    /\ IssueTokens(refresh_tokens, rpc[p].user_id, rpc[p].token, MaxRaceTokens)
    /\ auth_last' = AuthLog("refresh", rpc[p].token.sub, FALSE, rpc[p].token, 200,
                            create_refresh_token(rpc[p].user_id, now, next_jti))
    /\ rpc' = [rpc EXCEPT ![p] = [pc |-> "idle", token |-> NoToken, user_id |-> "nobody"]]
    /\ UNCHANGED <<users, now, ticks, prog_vars, ext_vars>>

RefreshRaceNext ==
    \/ \E e \in Emails, p \in Passwords : Login(e, p)
    \/ \E p \in RProcs, t \in Presentable : RefreshLookup(p, t)
    \/ \E p \in RProcs : RefreshRevoke(p)
    \/ \E p \in RProcs : RefreshSave(p)
    \/ Tick

RefreshRaceSpec == AuthServiceInit /\ [][RefreshRaceNext]_vars

----------------------------------------------------------------------------
(* Claims about the auth service *)

Successors(T) == {i \in issued : i.via = T}

Revoked(T) == \A r \in refresh_tokens : r.token_hash = hash_token(T) => r.revoked_at # NULL

\* C1: a refresh token is single-use when requests are served one at a time:
\* a token T yields at most one successor pair, T is revoked once it has one,
\* and a refresh presenting a T that already has a successor is answered 401
\* and stores and issues nothing.
C1_RefreshSingleUse ==
    /\ \A T \in Presentable : T.type = "refresh" =>
          /\ Cardinality(Successors(T)) <= 1
          /\ (Successors(T) # {} => Revoked(T))
    /\ auth_last.op = "refresh" =>
          /\ auth_last.code \in {200, 401}
          /\ (\E i \in Successors(auth_last.presented) : i.refresh # auth_last.granted) =>
                /\ auth_last.code = 401
                /\ auth_last.granted = NoToken
                /\ Cardinality(issued) = auth_last.pre_issued
                /\ Cardinality(refresh_tokens) = auth_last.pre_rows

\* C1 witness: a refresh presenting an already rotated token was answered 401
C1_Witness ==
    /\ auth_last.op = "refresh"
    /\ auth_last.code = 401
    /\ auth_last.presented.type = "refresh"
    /\ Successors(auth_last.presented) # {}

\* C2: a login of an existing, not locked user with a wrong password adds 1 to
\* failed_login_attempts, and when that reaches MAX_LOGIN_ATTEMPTS sets
\* locked_until to the time of the attempt plus LOCKOUT_DURATION_MINUTES.
C2_WrongPasswordCounts ==
    (/\ auth_last.op = "login"
     /\ auth_last.who \in DOMAIN users
     /\ ~auth_last.password_ok
     /\ ~auth_last.pre_locked) =>
        /\ auth_last.code = 401
        /\ users[auth_last.who].failed_login_attempts =
              auth_last.pre_user.failed_login_attempts + 1
        /\ (users[auth_last.who].failed_login_attempts >= MAX_LOGIN_ATTEMPTS =>
              users[auth_last.who].locked_until = auth_last.at + LOCKOUT_DURATION_MINUTES)

\* C9: also when two refresh requests run interleaved, a refresh token yields
\* at most one successor pair.
C9_RaceSingleUse ==
    \A T \in Presentable : T.type = "refresh" => Cardinality(Successors(T)) <= 1

\* C10: a login of a user whose locked_until lies in the future is answered
\* 423 whatever the password, issues and stores no token and leaves
\* failed_login_attempts and locked_until as they were; a login answered 200
\* was made when the user was not locked.
C10_LockedLoginRejected ==
    /\ (auth_last.op = "login" /\ auth_last.pre_locked) =>
          /\ auth_last.code = 423
          /\ auth_last.granted = NoToken
          /\ Cardinality(issued) = auth_last.pre_issued
          /\ Cardinality(refresh_tokens) = auth_last.pre_rows
          /\ users[auth_last.who].failed_login_attempts =
                auth_last.pre_user.failed_login_attempts
          /\ users[auth_last.who].locked_until = auth_last.pre_user.locked_until
    /\ (auth_last.op = "login" /\ auth_last.code = 200) => ~auth_last.pre_locked

\* C10 witness: a locked user presented the correct password and got 423
C10_Witness ==
    /\ auth_last.op = "login"
    /\ auth_last.pre_locked
    /\ auth_last.password_ok
    /\ auth_last.code = 423

----------------------------------------------------------------------------
(* crud/progress.py *)

UNSET == 0 - 2

MaxDay == 3
MaxTotalModules == 2

ModuleIds == Modules \cup {"mX"}
PathwayIds == Pathways \cup {"pX"}

\* ModuleCompletionCreate.time_spent_minutes: Optional[int] = 0
MinuteInputs == {NULL, 30}

\* UserProgressUpdate fields: left out of the body, sent as null, or a value
\* (progress_percentage: Optional[int] = Field(None, ge=0, le=100))
PercentageInputs == {UNSET, NULL, 0, 100}
CompletedInputs == {UNSET, 0}
TimeInputs == {UNSET, 30}

\* ResourceCompletionUpdate.status values sent to PUT .../progress
StatusInputs == {"in_progress", "submitted"}

RECURSIVE SetSum(_, _)
SetSum(f, S) ==
    IF S = {} THEN 0
    ELSE LET x == CHOOSE y \in S : TRUE IN f[x] + SetSum(f, S \ {x})

Max(a, b) == IF a >= b THEN a ELSE b

\* the pairs <<completed_modules, total_modules>> with completed_modules <=
\* total_modules <= 50 for which the double (completed / total) * 100 is
\* below the integer completed * 100 / total: 29 / 50 is 0.58 rounded down,
\* and times 100 it is 57.99999999999999
FloatShortfall == {<<29, 50>>}

\* int((user_progress.completed_modules / pathway.total_modules) * 100) for
\* total_modules > 0: the double product truncated toward zero
percentage(completed_modules, total_modules) ==
    LET magnitude == IF completed_modules >= 0 THEN completed_modules ELSE 0 - completed_modules
        exact == (magnitude * 100) \div total_modules
        truncated == IF <<magnitude, total_modules>> \in FloatShortfall THEN exact - 1 ELSE exact
    IN  IF completed_modules >= 0 THEN truncated ELSE 0 - truncated

\* UserProgress.__table_args__: CHECK (progress_percentage >= 0 AND
\* progress_percentage <= 100); as every SQL CHECK it passes on NULL
check_progress_percentage(row) ==
    \/ row.progress_percentage = NULL
    \/ (row.progress_percentage >= 0 /\ row.progress_percentage <= 100)

\* ProgressCRUD.get_module_completions(db, user_id): the rows of the user
get_module_completions(mc, u) ==
    SetSum(mc, {k \in DOMAIN mc : k[1] = u})

\* rows of module_completions for (user, module)
existing_completions(mc, u, m) ==
    SetSum(mc, {k \in DOMAIN mc : k[1] = u /\ k[2] = m})

update_learning_streak_keep(streak, day) ==
    IF ~streak.exists
    THEN [exists |-> TRUE, current_streak |-> 1, longest_streak |-> 1,
          last_activity_date |-> day]
    ELSE IF day - streak.last_activity_date >= 2
         THEN [streak EXCEPT !.last_activity_date = day]
         ELSE [streak EXCEPT !.current_streak = IF day = streak.last_activity_date THEN @ ELSE @ + 1,
                             !.longest_streak = IF day = streak.last_activity_date THEN @
                                                ELSE Max(@, streak.current_streak + 1),
                             !.last_activity_date = day]

\* the consecutive-day branch without its max()
update_learning_streak_nomax(streak, day) ==
    IF ~streak.exists
    THEN [exists |-> TRUE, current_streak |-> 1, longest_streak |-> 1,
          last_activity_date |-> day]
    ELSE IF day - streak.last_activity_date = 0
    THEN [streak EXCEPT !.last_activity_date = day]
    ELSE IF day - streak.last_activity_date = 1
    THEN [streak EXCEPT !.current_streak = @ + 1, !.last_activity_date = day]
    ELSE [streak EXCEPT !.current_streak = 1, !.last_activity_date = day]

update_learning_streak(streak, day) ==
    IF ~streak.exists
    THEN [exists |-> TRUE, current_streak |-> 1, longest_streak |-> 1,
          last_activity_date |-> day]
    ELSE IF streak.last_activity_date # NULL
    THEN LET days_diff == day - streak.last_activity_date
         IN  IF days_diff = 0
             THEN [streak EXCEPT !.last_activity_date = day]
             ELSE IF days_diff = 1
             THEN [streak EXCEPT !.current_streak = @ + 1,
                                 !.longest_streak = Max(@, streak.current_streak + 1),
                                 !.last_activity_date = day]
             ELSE [streak EXCEPT !.current_streak = 1,
                                 !.last_activity_date = day]
    ELSE [streak EXCEPT !.current_streak = 1,
                        !.longest_streak = Max(@, 1),
                        !.last_activity_date = day]

\* award_achievement: the new table and what the call returns
award_achievement_unchecked(ua, u, a) ==
    [table |-> [ua EXCEPT ![<<u, a>>] = @ + 1], result |-> "row"]

award_achievement(ua, u, a) ==
    IF ua[<<u, a>>] > 0
    THEN [table |-> ua, result |-> "none"]
    ELSE [table |-> [ua EXCEPT ![<<u, a>>] = @ + 1], result |-> "row"]

should_award_strict(a, modules_completed, pathways_completed, pathways_started, total_time, streak) ==
    LET ach == achievement_catalog[a]
    IN  CASE ach.requirement_type = "modules_completed" ->
                modules_completed > ach.requirement_value
          [] ach.requirement_type = "pathways_completed" ->
                pathways_completed > ach.requirement_value
          [] ach.requirement_type = "streak_days" ->
                streak.exists /\ streak.current_streak > ach.requirement_value
          [] ach.requirement_type = "time_spent" ->
                total_time > ach.requirement_value
          [] ach.requirement_type = "custom" /\ a = "pathway-starter" ->
                pathways_started >= 1
          [] OTHER -> FALSE

should_award(a, modules_completed, pathways_completed, pathways_started, total_time, streak) ==
    LET ach == achievement_catalog[a]
    IN  CASE ach.requirement_type = "modules_completed" ->
                modules_completed >= ach.requirement_value
          [] ach.requirement_type = "pathways_completed" ->
                pathways_completed >= ach.requirement_value
          [] ach.requirement_type = "streak_days" ->
                streak.exists /\ streak.current_streak >= ach.requirement_value
          [] ach.requirement_type = "time_spent" ->
                total_time >= ach.requirement_value
          [] ach.requirement_type = "custom" /\ a = "pathway-starter" ->
                pathways_started >= 1
          [] OTHER -> FALSE

\* check_and_award_achievements: the user_achievements table after the loop
check_and_award_achievements(up, mc, ls, ua, u) ==
    LET progress_list == {k \in DOMAIN up : k[1] = u /\ up[k].exists}
        modules_completed == get_module_completions(mc, u)
        pathways_completed ==
            Cardinality({k \in progress_list : up[k].progress_percentage = 100})
        pathways_started == Cardinality(progress_list)
        total_time ==
            SetSum([k \in progress_list |-> up[k].total_time_spent_minutes], progress_list)
    IN  [k \in DOMAIN ua |->
            IF k[1] = u /\ should_award(k[2], modules_completed, pathways_completed,
                                        pathways_started, total_time, ls[u])
            THEN award_achievement(ua, u, k[2]).table[k]
            ELSE ua[k]]

----------------------------------------------------------------------------
(* api/v1/progress.py, api/v1/resources.py: the handlers *)

ProgLog(op, u, args, code, streak_calls, result) ==
    [op |-> op, user |-> u, args |-> args, code |-> code,
     streak_calls |-> streak_calls, result |-> result]

get_resources_by_module(m) == {r \in Resources : resource_catalog[r].module_id = m}

\* progress.py:388 `completion.status not in [...]` negated, for an existing row
resource_completed(c) == c.status \in {"completed", "submitted", "reviewed"}

incomplete_resources(u, m) ==
    {r \in get_resources_by_module(m) : ~resource_completed(resource_completions[<<u, r>>])}

missing_uploads_ignored(u, m) == {}

missing_uploads_uncounted(u, m) ==
    {r \in get_resources_by_module(m) :
        /\ resource_completed(resource_completions[<<u, r>>])
        /\ resource_catalog[r].requires_upload}

missing_uploads(u, m) ==
    {r \in get_resources_by_module(m) :
        /\ resource_completed(resource_completions[<<u, r>>])
        /\ resource_catalog[r].requires_upload
        /\ resource_completions[<<u, r>>].submission_count = 0}

\* create_user_progress, lines 86-99, for a pathway without a row
new_user_progress == [NoProgress EXCEPT !.exists = TRUE]

\* ProgressCRUD.mark_module_complete from line 160 on, when no completion
\* exists and get_user_progress gave `loaded`: insert the completion, create
\* the progress row if there was none, recompute it from the loaded values,
\* commit, update the streak, award achievements. create_user_progress
\* commits the pending completion with the new progress row; a later
\* exception (ZeroDivisionError, the CHECK at commit) rolls back only what
\* was not yet committed.
CompleteInsertFrom(u, m, p, minutes, log_op, loaded) ==
    LET key == <<u, p>>
        had == loaded.exists
        created == IF had THEN user_progress
                   ELSE [user_progress EXCEPT ![key] = new_user_progress]
        streak1 == IF had THEN learning_streaks
                   ELSE [learning_streaks EXCEPT ![u] = update_learning_streak(@, today)]
        inserted == [module_completions EXCEPT ![<<u, m, p>>] = @ + 1]
        row == IF had THEN loaded ELSE new_user_progress
        total == pathways[p]
        completed == row.completed_modules + 1
        updated == [row EXCEPT
                      !.completed_modules = completed,
                      !.progress_percentage = percentage(completed, total),
                      !.total_time_spent_minutes = @ + (IF minutes = NULL THEN 0 ELSE minutes),
                      !.completed_at = IF percentage(completed, total) = 100 THEN today ELSE @]
        commit_ok == total # 0 /\ check_progress_percentage(updated)
        args == [NoArgs EXCEPT !.module_id = m, !.pathway_id = p]
    IN
    IF commit_ok
    THEN /\ user_progress' = [created EXCEPT ![key] = updated]
         /\ module_completions' = inserted
         /\ learning_streaks' = [streak1 EXCEPT ![u] = update_learning_streak(@, today)]
         /\ user_achievements' =
                check_and_award_achievements(user_progress', module_completions',
                                             learning_streaks', user_achievements, u)
         /\ prog_last' = ProgLog(log_op, u, args, 200, IF had THEN 1 ELSE 2, "created")
    ELSE IF had
    THEN /\ UNCHANGED prog_tables
         /\ prog_last' = ProgLog(log_op, u, args, 500, 0, "none")
    ELSE /\ user_progress' = created
         /\ module_completions' = inserted
         /\ learning_streaks' = streak1
         /\ UNCHANGED user_achievements
         /\ prog_last' = ProgLog(log_op, u, args, 500, 1, "none")

\* ... with the row as the database holds it now: the request runs alone
CompleteInsert(u, m, p, minutes, log_op) ==
    CompleteInsertFrom(u, m, p, minutes, log_op, user_progress[<<u, p>>])

\* POST /modules/complete, the whole handler in one step
MarkModuleComplete(u, m, p, minutes) ==
    LET args == [NoArgs EXCEPT !.module_id = m, !.pathway_id = p]
        existing == existing_completions(module_completions, u, m)
    IN
    /\ UNCHANGED <<today, pathways, resource_completions, cpc, auth_vars, ext_vars>>
    /\ IF m \notin Modules \/ p \notin Pathways
       THEN /\ UNCHANGED prog_tables
            /\ prog_last' = ProgLog("complete", u, args, 404, 0, "none")
       ELSE IF incomplete_resources(u, m) # {} \/ missing_uploads(u, m) # {}
       THEN /\ UNCHANGED prog_tables
            /\ prog_last' = ProgLog("complete", u, args, 400, 0, "none")
       ELSE IF existing > 1
       THEN /\ UNCHANGED prog_tables
            /\ prog_last' = ProgLog("complete", u, args, 500, 0, "none")
       ELSE IF existing = 1
       THEN /\ UNCHANGED prog_tables
            /\ prog_last' = ProgLog("complete", u, args, 200, 0, "existing")
       ELSE CompleteInsert(u, m, p, minutes, "complete")

\* POST /user/start-pathway
StartPathway(u, p) ==
    LET args == [NoArgs EXCEPT !.pathway_id = p]
    IN
    /\ UNCHANGED <<today, pathways, resource_completions, cpc, auth_vars, ext_vars,
                   module_completions, user_achievements>>
    /\ IF p \notin Pathways
       THEN /\ UNCHANGED <<user_progress, learning_streaks>>
            /\ prog_last' = ProgLog("start", u, args, 404, 0, "none")
       ELSE IF user_progress[<<u, p>>].exists
       THEN /\ UNCHANGED <<user_progress, learning_streaks>>
            /\ prog_last' = ProgLog("start", u, args, 200, 0, "existing")
       ELSE /\ user_progress' = [user_progress EXCEPT ![<<u, p>>] = new_user_progress]
            /\ learning_streaks' = [learning_streaks EXCEPT ![u] = update_learning_streak(@, today)]
            /\ prog_last' = ProgLog("start", u, args, 200, 1, "created")

\* UserProgressResponse (schemas/progress.py:42-68): the committed row is
\* serialised with progress_percentage: int = Field(ge=0, le=100)
response_valid(row) ==
    /\ row.progress_percentage # NULL
    /\ row.progress_percentage >= 0
    /\ row.progress_percentage <= 100

\* update_user_progress without its completion check
UpdatePathwayProgress_unstamped(u, p, pct, completed, minutes) ==
    LET args == [NoArgs EXCEPT !.pathway_id = p]
        row == user_progress[<<u, p>>]
        updated == [row EXCEPT
                      !.progress_percentage = IF pct = UNSET THEN @ ELSE pct,
                      !.completed_modules = IF completed = UNSET THEN @ ELSE completed,
                      !.total_time_spent_minutes = IF minutes = UNSET THEN @ ELSE minutes]
    IN
    /\ UNCHANGED <<today, pathways, resource_completions, cpc, auth_vars, ext_vars,
                   module_completions, learning_streaks, user_achievements>>
    /\ IF p \notin Pathways \/ ~row.exists
       THEN /\ UNCHANGED user_progress
            /\ prog_last' = ProgLog("update", u, args, 404, 0, "none")
       ELSE /\ user_progress' = [user_progress EXCEPT ![<<u, p>>] = updated]
            /\ prog_last' = ProgLog("update", u, args,
                                    IF response_valid(updated) THEN 200 ELSE 500,
                                    0, "updated")

\* PUT /user/pathway/{pathway_slug}: update_user_progress sets every field
\* the body holds (a null included), stamps completed_at and awards
\* achievements when the percentage is 100 for the first time, and commits;
\* the response is built from the committed row
UpdatePathwayProgress(u, p, pct, completed, minutes) ==
    LET args == [NoArgs EXCEPT !.pathway_id = p]
        row == user_progress[<<u, p>>]
        set == [row EXCEPT
                  !.progress_percentage = IF pct = UNSET THEN @ ELSE pct,
                  !.completed_modules = IF completed = UNSET THEN @ ELSE completed,
                  !.total_time_spent_minutes = IF minutes = UNSET THEN @ ELSE minutes]
        first_100 == set.progress_percentage = 100 /\ set.completed_at = NULL
        updated == IF first_100 THEN [set EXCEPT !.completed_at = today] ELSE set
    IN
    /\ UNCHANGED <<today, pathways, resource_completions, cpc, auth_vars, ext_vars,
                   module_completions, learning_streaks>>
    /\ IF p \notin Pathways \/ ~row.exists
       THEN /\ UNCHANGED <<user_progress, user_achievements>>
            /\ prog_last' = ProgLog("update", u, args, 404, 0, "none")
       ELSE /\ user_progress' = [user_progress EXCEPT ![<<u, p>>] = updated]
            /\ user_achievements' =
                  IF first_100
                  THEN check_and_award_achievements(user_progress', module_completions,
                                                    learning_streaks, user_achievements, u)
                  ELSE user_achievements
            /\ prog_last' = ProgLog("update", u, args,
                                    IF response_valid(updated) THEN 200 ELSE 500,
                                    0, "updated")

\* ProgressCRUD.award_achievement called for a user and an achievement
AwardAchievement(u, a) ==
    /\ user_achievements' = award_achievement(user_achievements, u, a).table
    /\ UNCHANGED <<today, pathways, resource_completions, cpc, auth_vars, ext_vars,
                   user_progress, module_completions, learning_streaks>>
    /\ prog_last' = ProgLog("award", u, [NoArgs EXCEPT !.achievement_id = a], 200, 0,
                            award_achievement(user_achievements, u, a).result)

\* create_resource_completion (crud/resource.py:59-83) when no row exists
get_or_create_completion(c) ==
    IF c.status = "absent" THEN [c EXCEPT !.status = "in_progress"] ELSE c

ResourceLog(u, r) == ProgLog("resource", u, [NoArgs EXCEPT !.resource_id = r], 200, 0, "none")

\* POST /users/me/resources/{resource_id}/start
StartResource(u, r) ==
    /\ resource_completions' =
          [resource_completions EXCEPT ![<<u, r>>] = get_or_create_completion(@)]
    /\ UNCHANGED <<today, pathways, cpc, auth_vars, ext_vars, prog_tables>>
    /\ prog_last' = ResourceLog(u, r)

\* PUT /users/me/resources/{resource_id}/progress with a status
UpdateResourceProgress(u, r, status) ==
    /\ resource_completions' =
          [resource_completions EXCEPT ![<<u, r>>] =
              [get_or_create_completion(@) EXCEPT !.status = status]]
    /\ UNCHANGED <<today, pathways, cpc, auth_vars, ext_vars, prog_tables>>
    /\ prog_last' = ResourceLog(u, r)

\* POST /users/me/resources/{resource_id}/complete
CompleteResource(u, r) ==
    /\ resource_completions' =
          [resource_completions EXCEPT ![<<u, r>>] =
              [get_or_create_completion(@) EXCEPT !.status = "completed"]]
    /\ UNCHANGED <<today, pathways, cpc, auth_vars, ext_vars, prog_tables>>
    /\ prog_last' = ResourceLog(u, r)

\* date.today() moves on by one day or by two
DayTick ==
    /\ \E d \in {1, 2} : today + d <= MaxDay /\ today' = today + d
    /\ prog_last' = ProgLog("tick", "u1", NoArgs, 0, 0, "none")
    /\ UNCHANGED <<pathways, resource_completions, cpc, auth_vars, ext_vars, prog_tables>>

\* the auth service untouched, for the specifications of the progress service
AuthIdle ==
    /\ AuthInit
    /\ \A u \in Users : users[u].account_status = "active" /\ users[u].locked_until = NULL

\* every resource completed by the learner, none with an upload
AllResourcesCompleted ==
    resource_completions =
        [k \in Learners \X Resources |-> [status |-> "completed", submission_count |-> 0]]

\* POST /modules/complete of two requests in flight: the handler up to the
\* look-up of an existing completion (crud/progress.py:147-158) ...
CompleteLookup(c, u, m, p, minutes) ==
    LET args == [NoArgs EXCEPT !.module_id = m, !.pathway_id = p]
        existing == existing_completions(module_completions, u, m)
    IN
    /\ cpc[c].pc = "idle"
    /\ UNCHANGED <<today, pathways, resource_completions, auth_vars, ext_vars, prog_tables>>
    /\ IF m \notin Modules \/ p \notin Pathways
       THEN /\ prog_last' = ProgLog("complete", u, args, 404, 0, "none")
            /\ UNCHANGED cpc
       ELSE IF incomplete_resources(u, m) # {} \/ missing_uploads(u, m) # {}
       THEN /\ prog_last' = ProgLog("complete", u, args, 400, 0, "none")
            /\ UNCHANGED cpc
       ELSE IF existing > 1
       THEN /\ prog_last' = ProgLog("complete", u, args, 500, 0, "none")
            /\ UNCHANGED cpc
       ELSE IF existing = 1
       THEN /\ prog_last' = ProgLog("complete", u, args, 200, 0, "existing")
            /\ UNCHANGED cpc
       ELSE /\ prog_last' = ProgLog("lookup", u, args, 0, 0, "none")
            /\ cpc' = [cpc EXCEPT ![c] = [pc |-> "insert", user |-> u, args |-> args,
                                          minutes |-> minutes]]

\* ... and the rest of it (crud/progress.py:160-196), after the other
\* request may have run
CompleteFinish(c) ==
    /\ cpc[c].pc = "insert"
    /\ cpc' = [cpc EXCEPT ![c] = [pc |-> "idle", user |-> "u1", args |-> NoArgs,
                                  minutes |-> NULL]]
    /\ UNCHANGED <<today, pathways, resource_completions, auth_vars, ext_vars>>
    /\ CompleteInsert(cpc[c].user, cpc[c].args.module_id, cpc[c].args.pathway_id,
                      cpc[c].minutes, "complete")

ProgressInit ==
    /\ AuthIdle
    /\ today = 0
    /\ pathways = [p \in Pathways |-> IF p = "p1" THEN MaxTotalModules ELSE 1]
    /\ AllResourcesCompleted
    /\ EmptyTables
    /\ ExtIdle

\* any total_modules a Pathway row can hold, from the column default 0 on
PercentageInit ==
    /\ AuthIdle
    /\ today = 0
    /\ pathways \in {[p \in Pathways |-> IF p = "p1" THEN n ELSE 1] : n \in 0..MaxTotalModules}
    /\ AllResourcesCompleted
    /\ EmptyTables
    /\ ExtIdle

PercentageNext ==
    \/ \E u \in Learners, p \in PathwayIds : StartPathway(u, p)
    \/ \E u \in Learners, m \in ModuleIds, p \in PathwayIds :
          MarkModuleComplete(u, m, p, NULL)
    \/ \E u \in Learners, p \in PathwayIds, pct \in PercentageInputs, c \in CompletedInputs :
          UpdatePathwayProgress(u, p, pct, c, UNSET)

PercentageSpec == PercentageInit /\ [][PercentageNext]_vars

StreakNext ==
    \/ \E u \in Learners, p \in PathwayIds : StartPathway(u, p)
    \/ \E u \in Learners, m \in ModuleIds, p \in PathwayIds :
          MarkModuleComplete(u, m, p, NULL)
    \/ DayTick

StreakSpec == ProgressInit /\ [][StreakNext]_vars

AchievementNext ==
    \/ \E u \in Learners, m \in Modules, p \in Pathways, t \in MinuteInputs :
          MarkModuleComplete(u, m, p, t)
    \/ \E u \in Learners, p \in Pathways, pct \in {UNSET, 100}, t \in TimeInputs :
          UpdatePathwayProgress(u, p, pct, UNSET, t)
    \/ \E u \in Learners, a \in Achievements : AwardAchievement(u, a)
    \/ DayTick

AchievementSpec == ProgressInit /\ [][AchievementNext]_vars

CompleteRaceNext ==
    \/ \E c \in CProcs, u \in Learners, m \in Modules, p \in Pathways :
          CompleteLookup(c, u, m, p, NULL)
    \/ \E c \in CProcs : CompleteFinish(c)

CompleteRaceSpec == ProgressInit /\ [][CompleteRaceNext]_vars

\* a pathway of two modules or of fifty, and a user who is 28 modules into it
ManyModules == 50
CompletedSoFar == 28

TruncationInit ==
    /\ AuthIdle
    /\ today = 0
    /\ pathways \in {[p \in Pathways |-> IF p = "p1" THEN n ELSE 1] :
                        n \in {MaxTotalModules, ManyModules}}
    /\ AllResourcesCompleted
    /\ EmptyTables
    /\ ExtIdle

TruncationNext ==
    \/ \E u \in Learners, p \in Pathways : StartPathway(u, p)
    \/ \E u \in Learners, p \in Pathways, c \in {UNSET, CompletedSoFar} :
          UpdatePathwayProgress(u, p, UNSET, c, UNSET)
    \/ \E u \in Learners, m \in Modules, p \in Pathways : MarkModuleComplete(u, m, p, NULL)

TruncationSpec == TruncationInit /\ [][TruncationNext]_vars

ModuleGateInit ==
    /\ AuthIdle
    /\ today = 0
    /\ pathways = [p \in Pathways |-> MaxTotalModules]
    /\ resource_completions = [k \in Learners \X Resources |-> NoResourceCompletion]
    /\ EmptyTables
    /\ ExtIdle

ModuleGateNext ==
    \/ \E u \in Learners, r \in Resources : StartResource(u, r)
    \/ \E u \in Learners, r \in Resources : CompleteResource(u, r)
    \/ \E u \in Learners, r \in Resources, st \in StatusInputs : UpdateResourceProgress(u, r, st)
    \/ \E u \in Learners, m \in ModuleIds, p \in PathwayIds : MarkModuleComplete(u, m, p, NULL)

ModuleGateSpec == ModuleGateInit /\ [][ModuleGateNext]_vars

----------------------------------------------------------------------------
(* The progress service: claims *)

\* every Resource of the module has a completion of the user that counts as
\* done and, where an upload is required, at least one submission
ResourcesSatisfied(u, m) ==
    \A r \in Resources :
        resource_catalog[r].module_id = m =>
            /\ resource_completions[<<u, r>>].status \in {"completed", "submitted", "reviewed"}
            /\ (resource_catalog[r].requires_upload =>
                    resource_completions[<<u, r>>].submission_count > 0)

\* C3 as stated: POST /modules/complete creates a ModuleCompletion only if
\* every resource of the module is completed (and uploaded where required);
\* otherwise it answers 400 and changes no completion, progress, streak or
\* achievement row.
C3_GateElse400 ==
    [][prog_last'.op = "complete" =>
          LET u == prog_last'.user
              m == prog_last'.args.module_id
          IN  /\ (module_completions' # module_completions => ResourcesSatisfied(u, m))
              /\ (~ResourcesSatisfied(u, m) =>
                      prog_last'.code = 400 /\ UNCHANGED prog_tables)]_vars

\* C3 amended: POST /modules/complete creates a ModuleCompletion only if every
\* resource of the module is completed (and uploaded where required);
\* otherwise it answers 400, or 404 when the pathway of the request does not
\* exist, and changes no completion, progress, streak or achievement row.
C3_GateElse400Or404 ==
    [][prog_last'.op = "complete" =>
          LET u == prog_last'.user
              m == prog_last'.args.module_id
              p == prog_last'.args.pathway_id
          IN  /\ (module_completions' # module_completions => ResourcesSatisfied(u, m))
              /\ (~ResourcesSatisfied(u, m) =>
                      /\ prog_last'.code = IF p \in Pathways THEN 400 ELSE 404
                      /\ UNCHANGED prog_tables)]_vars

\* a request for m1 refused with 400 only because the upload of r2 is
\* missing, after m3 was completed through the gate
C3_Witness ==
    /\ prog_last.op = "complete" /\ prog_last.code = 400
    /\ prog_last.args.module_id = "m1"
    /\ resource_completions[<<"u1", "r1">>].status = "completed"
    /\ resource_completions[<<"u1", "r2">>].status = "submitted"
    /\ existing_completions(module_completions, "u1", "m3") = 1
    /\ existing_completions(module_completions, "u1", "m1") = 0

\* C4: every UserProgress row has 0 <= progress_percentage <= 100 in every
\* reachable state, after any sequence of start-pathway, mark-module-complete
\* and update-pathway-progress requests.
C4_PercentageInRange ==
    \A k \in DOMAIN user_progress :
        user_progress[k].exists =>
            /\ user_progress[k].progress_percentage # NULL
            /\ user_progress[k].progress_percentage >= 0
            /\ user_progress[k].progress_percentage <= 100

\* C5: one update_learning_streak call on day t: without a row it creates
\* current = longest = 1; with last activity d, t - d = 0 leaves current and
\* longest alone, t - d = 1 adds one to current and makes longest the maximum
\* of itself and the new current, t - d > 1 sets current to 1 and leaves
\* longest alone; last_activity_date becomes t in every case.
C5_StreakArithmetic ==
    [][prog_last'.streak_calls = 1 =>
          LET old == learning_streaks[prog_last'.user]
              new == learning_streaks'[prog_last'.user]
              diff == today - old.last_activity_date
          IN  /\ new.exists
              /\ new.last_activity_date = today
              /\ ~old.exists => (new.current_streak = 1 /\ new.longest_streak = 1)
              /\ (old.exists /\ diff = 0) =>
                    /\ new.current_streak = old.current_streak
                    /\ new.longest_streak = old.longest_streak
              /\ (old.exists /\ diff = 1) =>
                    /\ new.current_streak = old.current_streak + 1
                    /\ new.longest_streak =
                          IF old.longest_streak >= new.current_streak
                          THEN old.longest_streak ELSE new.current_streak
              /\ (old.exists /\ diff > 1) =>
                    /\ new.current_streak = 1
                    /\ new.longest_streak = old.longest_streak]_vars

\* a streak of two days was reset by an activity after a gap
C5_Witness ==
    /\ prog_last.streak_calls = 1
    /\ today = MaxDay
    /\ learning_streaks["u1"] = [exists |-> TRUE, current_streak |-> 1,
                                 longest_streak |-> 2, last_activity_date |-> MaxDay]

\* C6: there is at most one UserAchievement row per (user, achievement), and
\* award_achievement for an achievement the user holds inserts nothing and
\* returns None.
C6_AwardIdempotent ==
    /\ [](\A k \in DOMAIN user_achievements : user_achievements[k] <= 1)
    /\ [][(/\ prog_last'.op = "award"
           /\ user_achievements[<<prog_last'.user, prog_last'.args.achievement_id>>] >= 1)
          => (/\ user_achievements' = user_achievements
              /\ prog_last'.result = "none")]_vars

\* award_achievement returned None for an achievement that
\* check_and_award_achievements had awarded
C6_Witness ==
    /\ prog_last.op = "award" /\ prog_last.result = "none"
    /\ prog_last.args.achievement_id = "a-modules"
    /\ user_achievements[<<"u1", "a-modules">>] = 1
    /\ get_module_completions(module_completions, "u1") >= 2

\* C7: when mark_module_complete returns after creating a completion, every
\* catalog achievement of type modules_completed, pathways_completed,
\* streak_days or time_spent whose requirement_value is at most the user's
\* current value is held by the user.
C7_ThresholdsAwarded ==
    (prog_last.op = "complete" /\ prog_last.code = 200 /\ prog_last.result = "created") =>
        LET u == prog_last.user
            rows == {k \in DOMAIN user_progress : k[1] = u /\ user_progress[k].exists}
            value(type) ==
                CASE type = "modules_completed" ->
                        Cardinality({k \in DOMAIN module_completions :
                                        k[1] = u /\ module_completions[k] > 0})
                  [] type = "pathways_completed" ->
                        Cardinality({k \in rows : user_progress[k].progress_percentage = 100})
                  [] type = "streak_days" -> learning_streaks[u].current_streak
                  [] type = "time_spent" ->
                        SetSum([k \in rows |-> user_progress[k].total_time_spent_minutes], rows)
        IN  \A a \in Achievements :
                (/\ achievement_catalog[a].requirement_type \in
                        {"modules_completed", "pathways_completed", "streak_days", "time_spent"}
                 /\ achievement_catalog[a].requirement_value <= value(achievement_catalog[a].requirement_type))
                => user_achievements[<<u, a>>] >= 1

\* the completion that brought the count to its threshold of two and the
\* pathway to 100%
C7_Witness ==
    /\ prog_last.op = "complete" /\ prog_last.code = 200 /\ prog_last.result = "created"
    /\ get_module_completions(module_completions, "u1") = 2
    /\ user_progress[<<"u1", "p1">>].progress_percentage = 100
    /\ user_achievements[<<"u1", "a-modules">>] = 1
    /\ user_achievements[<<"u1", "a-pathway">>] = 1

\* C8: there is never more than one ModuleCompletion row for the same
\* (user, module), also when the look-up and the insert of two requests
\* interleave.
C8_OneCompletionPerModule ==
    \A u \in Learners, m \in Modules :
        existing_completions(module_completions, u, m) <= 1

----------------------------------------------------------------------------
(* core/gcs.py, api/v1/resources.py: file upload *)

MaxSubmissions == 2
MaxSeconds == 1

\* 1024 * 1024 (gcs.py:193)
BytesPerMB == 1048576

ResourceIds == Resources \cup {"rX"}

\* file names, character by character
FileNames ==
    {<<"a", ".", "p", "d", "f">>, <<"a", "+", ".", "p", "d", "f">>,
     <<"a", ".", "p", "n", "g">>, <<"a">>}

FileSizes == {BytesPerMB, BytesPerMB + 1}

\* MIME types as <<category, subtype>>; 'image/*' is <<"image", "*">>
NoMime == <<>>

AcceptedTypeLists == {<<>>, << <<"image", "*">> >>, << <<"application", "pdf">> >>}

\* str.isalnum() on the characters of FileNames
isalnum(c) == c \in {"a", "d", "f", "g", "n", "p"}

\* mimetypes.guess_type(filename)[0]: by the extension after the last dot
guess_type(filename) ==
    LET dots == {i \in 2..Len(filename) : filename[i] = "."}
        last == CHOOSE i \in dots : \A j \in dots : j <= i
        ext == SubSeq(filename, last + 1, Len(filename))
    IN  IF dots = {} THEN NoMime
        ELSE IF ext = <<"p", "d", "f">> THEN <<"application", "pdf">>
        ELSE IF ext = <<"p", "n", "g">> THEN <<"image", "png">>
        ELSE NoMime

\* the loop of gcs.py:206-216 for one allowed type
type_allows(allowed_type, mime_type) ==
    IF allowed_type[2] = "*"
    THEN mime_type[1] = allowed_type[1]
    ELSE mime_type = allowed_type

validate_file_upload_unsized(filename, file_size, allowed_types, max_size_mb) ==
    /\ guess_type(filename) # NoMime
    /\ (allowed_types # <<>> =>
            \E i \in 1..Len(allowed_types) : type_allows(allowed_types[i], guess_type(filename)))

\* validate_file_upload(...)[0]
validate_file_upload(filename, file_size, allowed_types, max_size_mb) ==
    /\ ~(file_size > max_size_mb * BytesPerMB)
    /\ guess_type(filename) # NoMime
    /\ (allowed_types # <<>> =>
            \E i \in 1..Len(allowed_types) : type_allows(allowed_types[i], guess_type(filename)))

\* generate_unique_filename: the time to the second, then the characters of
\* the name that are alphanumeric or one of "._- "
generate_unique_filename(original_filename, t) ==
    <<t, SelectSeq(original_filename, LAMBDA c : isalnum(c) \/ c \in {".", "_", "-", " "})>>

build_gcs_path(pathway_id, user_id, resource_id, filename) ==
    <<"pathways", pathway_id, "users", user_id, "resources", resource_id, filename>>

\* GCSManager.upload_file: the blob at the path is written, replacing what
\* was there
upload_file(objects, gcs_path, upload) ==
    {o \in objects : o.path # gcs_path} \cup {[path |-> gcs_path, upload |-> upload]}

\* the database trigger on resource_submissions the handler relies on
\* (resources.py:376): the completion becomes 'submitted' and counts the file
on_submission_insert(completion) ==
    [completion EXCEPT !.status = "submitted", !.submission_count = @ + 1]

SubLog(op, u, args, code) == [op |-> op, user |-> u, args |-> args, code |-> code]

\* a step of the submission service is no request to the progress service
NoProgressRequest == ProgLog("submission", "u1", NoArgs, 0, 0, "none")

\* POST /users/me/resources/{resource_id}/upload
UploadResourceFile(u, r, filename, size) ==
    LET args == [NoSubArgs EXCEPT !.resource_id = r, !.file_name = filename,
                                  !.file_size = size]
        completions == [resource_completions EXCEPT ![<<u, r>>] = get_or_create_completion(@)]
        gcs_path == build_gcs_path(module_pathway[resource_catalog[r].module_id], u, r,
                                   generate_unique_filename(filename, utc_second))
        id == Len(resource_submissions) + 1
    IN
    /\ Len(resource_submissions) < MaxSubmissions
    /\ prog_last' = NoProgressRequest
    /\ UNCHANGED <<today, pathways, cpc, prog_tables, auth_vars, mail_vars, svc_vars,
                   upload_rules, utc_second, module_approvals>>
    /\ IF r \notin Resources
       THEN /\ sub_last' = SubLog("upload", u, args, 404)
            /\ UNCHANGED <<resource_completions, resource_submissions, gcs_objects>>
       ELSE IF ~resource_catalog[r].requires_upload
       THEN /\ sub_last' = SubLog("upload", u, args, 400)
            /\ UNCHANGED <<resource_completions, resource_submissions, gcs_objects>>
       ELSE IF ~validate_file_upload(filename, size, upload_rules.accepted_file_types,
                                     upload_rules.max_file_size_mb)
       THEN /\ sub_last' = SubLog("upload", u, args, 400)
            /\ resource_completions' = completions
            /\ UNCHANGED <<resource_submissions, gcs_objects>>
       ELSE /\ gcs_objects' = upload_file(gcs_objects, gcs_path, id)
            /\ resource_submissions' =
                  Append(resource_submissions,
                         [user_id |-> u, resource_id |-> r, file_name |-> filename,
                          gcs_path |-> gcs_path, submission_status |-> "uploaded",
                          grade |-> NONE, reviewed_by |-> NONE,
                          reviewed_at |-> NULL, deleted_at |-> NULL])
            /\ resource_completions' =
                  [completions EXCEPT ![<<u, r>>] = on_submission_insert(@)]
            /\ sub_last' = SubLog("upload", u, [args EXCEPT !.id = id], 200)

\* a second passes
SecondTick ==
    /\ utc_second < MaxSeconds
    /\ utc_second' = utc_second + 1
    /\ sub_last' = SubLog("tick", "u1", NoSubArgs, 0)
    /\ prog_last' = NoProgressRequest
    /\ UNCHANGED <<today, pathways, resource_completions, cpc, prog_tables, auth_vars,
                   mail_vars, svc_vars, upload_rules, resource_submissions, gcs_objects,
                   module_approvals>>

UploadInit ==
    /\ AuthIdle
    /\ today = 0
    /\ pathways = [p \in Pathways |-> MaxTotalModules]
    /\ resource_completions = [k \in Learners \X Resources |-> NoResourceCompletion]
    /\ EmptyTables
    /\ upload_rules \in [accepted_file_types : AcceptedTypeLists, max_file_size_mb : {1}]
    /\ SubmissionsIdle
    /\ MailIdle
    /\ SvcIdle

UploadNext ==
    \/ \E u \in Learners, r \in ResourceIds, f \in FileNames, n \in FileSizes :
          UploadResourceFile(u, r, f, n)
    \/ \E u \in Learners, r \in {"r1", "r2"} : CompleteResource(u, r)
    \/ \E u \in Learners : MarkModuleComplete(u, "m1", "p1", NULL)
    \/ SecondTick

UploadSpec == UploadInit /\ [][UploadNext]_vars

----------------------------------------------------------------------------
(* api/v1/progress.py, api/v1/resources.py, admin_dashboard/app.py: review *)

\* ModuleApprovalRequest.approval_status
ApprovalInputs == {"approved", "rejected"}

\* bodies sent to POST /admin/submissions/{submission_id}/review
ReviewStatusInputs == {"approved", "rejected", "bogus"}
ReviewGradeInputs == {"pass", "fail", NONE}

\* bodies sent to the dashboard's POST /api/review/<submission_id>: a key can
\* be absent, null or any string
MISSING == "KeyError"
DashboardStatusInputs == {"approved", "bogus", NONE, MISSING}
DashboardGradeInputs == {"pass", "A", NONE}

\* completion ids of the requests: m2 can be completed, m1 is never completed
CompletionIds == {<<"u1", "m2", "p1">>, <<"u1", "m1", "p1">>}

\* submissions under review
MaxReviewed == 1

\* SubmissionReviewRequest: both fields required, each matched by its pattern
SubmissionReviewRequest(submission_status, grade) ==
    /\ submission_status \in {"approved", "rejected"}
    /\ grade \in {"pass", "fail"}

\* ResourceSubmission.__table_args__: the two CHECK constraints; a CHECK
\* passes on NULL
check_resource_submission(row) ==
    /\ \/ row.submission_status = NONE
       \/ row.submission_status \in {"uploading", "uploaded", "processing",
                                     "approved", "rejected", "failed"}
    /\ (row.grade \in {"pass", "fail"} \/ row.grade = NONE)

\* Depends(get_current_user) plus the role check of the handlers, which is
\* a TODO (progress.py:446, resources.py:541): every authenticated user passes
may_review_owner_excluded(u, owner) == u # owner

may_review(u, owner) == TRUE

\* POST /modules/{completion_id}/approve
ApproveModuleCompletion(u, k, approval_status) ==
    LET args == [NoSubArgs EXCEPT !.completion_id = k, !.submission_status = approval_status]
    IN
    /\ prog_last' = NoProgressRequest
    /\ UNCHANGED <<today, pathways, cpc, prog_tables, resource_completions, auth_vars,
                   mail_vars, svc_vars, upload_rules, utc_second, resource_submissions, gcs_objects>>
    /\ IF module_completions[k] = 0
       THEN /\ sub_last' = SubLog("approve", u, args, 404)
            /\ UNCHANGED module_approvals
       ELSE IF ~may_review(u, k[1])
       THEN /\ sub_last' = SubLog("approve", u, args, 403)
            /\ UNCHANGED module_approvals
       ELSE /\ module_approvals' =
                  [module_approvals EXCEPT ![k] = [approval_status |-> approval_status,
                                                   reviewed_by |-> u]]
            /\ sub_last' = SubLog("approve", u, args, 200)

\* update_submission_review (crud/resource.py:239-265)
update_submission_review(rows, id, reviewer_id, submission_status, grade) ==
    [rows EXCEPT ![id] = [@ EXCEPT !.submission_status = submission_status,
                                   !.grade = grade,
                                   !.reviewed_by = reviewer_id,
                                   !.reviewed_at = utc_second]]

\* POST /admin/submissions/{submission_id}/review
ReviewSubmission(u, id, submission_status, grade) ==
    LET args == [NoSubArgs EXCEPT !.id = id, !.submission_status = submission_status,
                                  !.grade = grade]
    IN
    /\ prog_last' = NoProgressRequest
    /\ UNCHANGED <<today, pathways, cpc, prog_tables, resource_completions, auth_vars,
                   mail_vars, svc_vars, upload_rules, utc_second, module_approvals, gcs_objects>>
    /\ IF ~SubmissionReviewRequest(submission_status, grade)
       THEN /\ sub_last' = SubLog("review", u, args, 422)
            /\ UNCHANGED resource_submissions
       ELSE IF id \notin 1..Len(resource_submissions)
       THEN /\ sub_last' = SubLog("review", u, args, 404)
            /\ UNCHANGED resource_submissions
       ELSE IF ~may_review(u, resource_submissions[id].user_id)
       THEN /\ sub_last' = SubLog("review", u, args, 403)
            /\ UNCHANGED resource_submissions
       ELSE /\ resource_submissions' =
                  update_submission_review(resource_submissions, id, u, submission_status, grade)
            /\ sub_last' = SubLog("review", u, args, 200)

\* the dashboard's POST /api/review/<submission_id>: one UPDATE with the
\* values of the body, committed unless it raises
DashboardReview(id, submission_status, grade) ==
    LET args == [NoSubArgs EXCEPT !.id = id, !.submission_status = submission_status,
                                  !.grade = grade]
        found == id \in 1..Len(resource_submissions)
        updated == [resource_submissions[id] EXCEPT !.submission_status = submission_status,
                                                    !.grade = grade,
                                                    !.reviewed_at = utc_second]
    IN
    /\ prog_last' = NoProgressRequest
    /\ UNCHANGED <<today, pathways, cpc, prog_tables, resource_completions, auth_vars,
                   mail_vars, svc_vars, upload_rules, utc_second, module_approvals, gcs_objects>>
    /\ IF submission_status = MISSING
       THEN /\ sub_last' = SubLog("dashboard_review", "dashboard", args, 500)
            /\ UNCHANGED resource_submissions
       ELSE IF ~found
       THEN /\ sub_last' = SubLog("dashboard_review", "dashboard", args, 200)
            /\ UNCHANGED resource_submissions
       ELSE IF ~check_resource_submission(updated)
       THEN /\ sub_last' = SubLog("dashboard_review", "dashboard", args, 500)
            /\ UNCHANGED resource_submissions
       ELSE /\ resource_submissions' = [resource_submissions EXCEPT ![id] = updated]
            /\ sub_last' = SubLog("dashboard_review", "dashboard", args, 200)

ReviewInit ==
    /\ AuthIdle
    /\ today = 0
    /\ pathways = [p \in Pathways |-> MaxTotalModules]
    /\ resource_completions = [k \in Learners \X Resources |-> NoResourceCompletion]
    /\ EmptyTables
    /\ ExtIdle

ReviewNext ==
    \/ \E u \in Learners :
          /\ Len(resource_submissions) < MaxReviewed
          /\ UploadResourceFile(u, "r2", <<"a", ".", "p", "d", "f">>, BytesPerMB)
    \/ \E u \in Learners : MarkModuleComplete(u, "m2", "p1", NULL)
    \/ \E u \in Users, k \in CompletionIds, st \in ApprovalInputs :
          ApproveModuleCompletion(u, k, st)
    \/ \E u \in Users, id \in 1..(MaxReviewed + 1), st \in ReviewStatusInputs,
          g \in ReviewGradeInputs : ReviewSubmission(u, id, st, g)
    \/ \E id \in 1..(MaxReviewed + 1), st \in DashboardStatusInputs, g \in DashboardGradeInputs :
          DashboardReview(id, st, g)

ReviewSpec == ReviewInit /\ [][ReviewNext]_vars

\* every request that can be served is served
ReviewFairSpec == ReviewInit /\ [][ReviewNext]_vars /\ WF_vars(ReviewNext)

----------------------------------------------------------------------------
(* Submission and review: claims *)

\* the request of this step went to the submission service and was `op`
SubmissionStep(op) == prog_last'.op = "submission" /\ sub_last'.op = op

\* C11: an approve request for a module completion, or a review request for
\* a submission, sent by the student who owns it is rejected and leaves the
\* approval status, the submission status, the grade and the reviewer
\* unchanged.
C11_OwnerCannotReview ==
    [][/\ (/\ SubmissionStep("approve")
           /\ module_completions[sub_last'.args.completion_id] > 0
           /\ sub_last'.user = sub_last'.args.completion_id[1])
          => (sub_last'.code # 200 /\ UNCHANGED module_approvals)
       /\ (/\ SubmissionStep("review")
           /\ sub_last'.args.id \in 1..Len(resource_submissions)
           /\ sub_last'.user = resource_submissions[sub_last'.args.id].user_id)
          => (sub_last'.code # 200 /\ UNCHANGED resource_submissions)]_vars

\* the last request served reviewed submission `id`: it approved or
\* rejected an existing row and was answered 200
Reviewed(id) ==
    /\ sub_last.op \in {"review", "dashboard_review"}
    /\ sub_last.code = 200
    /\ sub_last.args.id = id
    /\ id \in 1..Len(resource_submissions)
    /\ sub_last.args.submission_status \in {"approved", "rejected"}

\* send_email has been entered for a notification about submission `id`
NotificationAttempted(id) == mail.pc # "idle" /\ mail.about = id

\* C12: every successful review of a submission, through the API endpoint or
\* through the dashboard, is followed by a notification email attempt to the
\* student who submitted it.
C12_ReviewLeadsToEmail ==
    \A id \in 1..MaxReviewed : Reviewed(id) ~> NotificationAttempted(id)

\* the MIME type guessed from the name matches the accepted types: exactly,
\* by a 'category/*' entry, or any determinable type when the list is empty
MimeAccepted(filename, accepted) ==
    LET mime == guess_type(filename)
    IN  /\ mime # NoMime
        /\ \/ accepted = <<>>
           \/ \E i \in 1..Len(accepted) :
                 \/ accepted[i] = mime
                 \/ accepted[i][2] = "*" /\ accepted[i][1] = mime[1]

\* C13: an upload request stores an object and creates a ResourceSubmission
\* only if the resource exists, requires an upload, the file is at most
\* max_file_size_mb * 1024 * 1024 bytes and its guessed MIME type is
\* accepted; otherwise it is answered 404 or 400, no submission is created
\* and nothing is written to object storage.
C13_UploadOnlyIfValid ==
    [][SubmissionStep("upload") =>
          LET r == sub_last'.args.resource_id
              ok == /\ r \in Resources
                    /\ resource_catalog[r].requires_upload
                    /\ sub_last'.args.file_size <= upload_rules.max_file_size_mb * 1024 * 1024
                    /\ MimeAccepted(sub_last'.args.file_name, upload_rules.accepted_file_types)
          IN  ~ok => /\ sub_last'.code \in {404, 400}
                     /\ UNCHANGED <<resource_submissions, gcs_objects>>]_vars

\* an oversized file refused after the same file name was stored at the limit
C13_Witness ==
    /\ sub_last.op = "upload" /\ sub_last.code = 400
    /\ sub_last.args.resource_id = "r2"
    /\ sub_last.args.file_size > upload_rules.max_file_size_mb * 1024 * 1024
    /\ MimeAccepted(sub_last.args.file_name, upload_rules.accepted_file_types)
    /\ Len(resource_submissions) = 1
    /\ Cardinality(gcs_objects) = 1

\* user `u` has a submission for resource `r`: an upload returned it
HasSubmission(u, r) ==
    \E i \in 1..Len(resource_submissions) :
        resource_submissions[i].user_id = u /\ resource_submissions[i].resource_id = r

C15_DistinctPaths ==
    \A i, j \in 1..Len(resource_submissions) :
        i # j => resource_submissions[i].gcs_path # resource_submissions[j].gcs_path

\* C16: every ResourceSubmission has a submission_status among uploading,
\* uploaded, processing, approved, rejected, failed and a grade that is
\* pass, fail or null.
C16_StatusAndGradeDomains ==
    \A i \in 1..Len(resource_submissions) :
        /\ resource_submissions[i].submission_status \in
              {"uploading", "uploaded", "processing", "approved", "rejected", "failed"}
        /\ resource_submissions[i].grade \in {"pass", "fail", NONE}

----------------------------------------------------------------------------
(* core/email.py, crud/email_log.py: send_email *)

\* calls of send_email
MaxEmails == 2

\* settings.EMAIL_RETRY_ATTEMPTS, settings.EMAIL_RETRY_DELAY_SECONDS
EMAIL_RETRY_ATTEMPTS == 3
EMAIL_RETRY_DELAY_SECONDS == 60

\* what `async with aiosmtplib.SMTP(...)` and send_message do: return, raise
\* one of the exceptions of the except clause (SMTPException, TimeoutError,
\* ConnectionError), or raise another exception
SmtpOutcomes == {"ok", "smtp_error", "other_error"}

\* create_email_log: a row with status 'pending' and retry_count 0
create_email_log(rows, resource_submission_id) ==
    Append(rows, [resource_submission_id |-> resource_submission_id,
                  status |-> "pending", retry_count |-> 0])

update_email_status_unset(rows, log_id, status, increment_retry) ==
    [rows EXCEPT ![log_id] =
        [@ EXCEPT !.retry_count = IF increment_retry THEN @ + 1 ELSE @]]

\* update_email_status: the status, and retry_count + 1 when asked
update_email_status(rows, log_id, status, increment_retry) ==
    [rows EXCEPT ![log_id] =
        [@ EXCEPT !.status = status,
                  !.retry_count = IF increment_retry THEN @ + 1 ELSE @]]

\* `if db and email_log_id:` around each update_email_status
update_if_logged(rows, log_id, status, increment_retry) ==
    IF log_id # 0 THEN update_email_status(rows, log_id, status, increment_retry) ELSE rows

\* `for attempt in range(self.retry_attempts)` and the `return False` after
\* the loop
for_attempt(m) ==
    IF m.attempt < EMAIL_RETRY_ATTEMPTS
    THEN [m EXCEPT !.pc = "attempt"]
    ELSE [m EXCEPT !.pc = "returned", !.returned = "False"]

send_succeeded_continue(m) == for_attempt([m EXCEPT !.attempt = @ + 1])

\* the try block after send_message returned: return True
send_succeeded(m) == [m EXCEPT !.pc = "returned", !.returned = "True"]

\* `attempt < self.retry_attempts - 1` is false
last_attempt(attempt) == ~(attempt < EMAIL_RETRY_ATTEMPTS - 1)

wait_time_fixed(attempt) == EMAIL_RETRY_DELAY_SECONDS

\* self.retry_delay * (2 ** attempt)
wait_time(attempt) == EMAIL_RETRY_DELAY_SECONDS * 2 ^ attempt

\* the except block: sleep before the next attempt, or return False after
\* the last one
send_failed(m) ==
    IF ~last_attempt(m.attempt)
    THEN [m EXCEPT !.pc = "sleep", !.waits = Append(@, wait_time(m.attempt))]
    ELSE [m EXCEPT !.pc = "returned", !.returned = "False"]

\* send_email up to the loop: the two early returns, the EmailLog row when a
\* session and log_metadata are passed, the rendering of the template
SendEmail(about, enabled, credentials, logged, renders) ==
    LET call == [NoMail EXCEPT !.calls = mail.calls + 1, !.about = about]
        rows == IF logged THEN create_email_log(email_logs, about) ELSE email_logs
        log_id == IF logged THEN Len(rows) ELSE 0
    IN
    /\ mail.pc \in {"idle", "returned", "raised"}
    /\ mail.calls < MaxEmails
    /\ UNCHANGED <<auth_vars, prog_vars, sub_vars, svc_vars>>
    /\ IF ~enabled \/ ~credentials
       THEN /\ mail' = [call EXCEPT !.pc = "returned", !.returned = "False"]
            /\ UNCHANGED email_logs
       ELSE IF ~renders
       THEN /\ email_logs' = update_if_logged(rows, log_id, "failed", FALSE)
            /\ mail' = [call EXCEPT !.pc = "returned", !.returned = "False", !.log_id = log_id]
       ELSE /\ email_logs' = rows
            /\ mail' = for_attempt([call EXCEPT !.log_id = log_id])

\* one iteration of the loop: the SMTP session and what follows it
SmtpAttempt(outcome) ==
    LET m == [mail EXCEPT !.attempts_made = @ + 1,
                          !.succeeded = IF outcome = "ok" THEN @ + 1 ELSE @]
    IN
    /\ mail.pc = "attempt"
    /\ UNCHANGED <<auth_vars, prog_vars, sub_vars, svc_vars>>
    /\ CASE outcome = "ok" ->
               /\ email_logs' = update_if_logged(email_logs, mail.log_id, "sent", FALSE)
               /\ mail' = send_succeeded(m)
         [] outcome = "smtp_error" ->
               /\ email_logs' = IF last_attempt(mail.attempt)
                                THEN update_if_logged(email_logs, mail.log_id, "failed", TRUE)
                                ELSE email_logs
               /\ mail' = send_failed(m)
         [] OTHER ->
               /\ mail' = [m EXCEPT !.pc = "raised"]
               /\ UNCHANGED email_logs

\* asyncio.sleep(wait_time) returns and the loop goes on
SleepDone ==
    /\ mail.pc = "sleep"
    /\ mail' = for_attempt([mail EXCEPT !.attempt = @ + 1])
    /\ UNCHANGED <<email_logs, auth_vars, prog_vars, sub_vars, svc_vars>>

EmailInit ==
    /\ AuthIdle
    /\ today = 0
    /\ pathways = [p \in Pathways |-> MaxTotalModules]
    /\ resource_completions = [k \in Learners \X Resources |-> NoResourceCompletion]
    /\ EmptyTables
    /\ ExtIdle

EmailNext ==
    \/ \E about \in 1..MaxEmails, enabled, credentials, logged, renders \in BOOLEAN :
          SendEmail(about, enabled, credentials, logged, renders)
    \/ \E outcome \in SmtpOutcomes : SmtpAttempt(outcome)
    \/ SleepDone

EmailSpec == EmailInit /\ [][EmailNext]_vars

\* the event loop resumes the coroutine: an SMTP session ends (timeout 30)
\* and a sleep returns
EmailLiveSpec ==
    /\ EmailInit
    /\ [][EmailNext]_vars
    /\ WF_vars(\E outcome \in SmtpOutcomes : SmtpAttempt(outcome))
    /\ WF_vars(SleepDone)

----------------------------------------------------------------------------
(* send_email: claims *)

\* the SMTP attempts of the current call that did not succeed
FailedAttempts == mail.attempts_made - mail.succeeded

C18_LogStatusFollowsResult ==
    (mail.pc = "returned" /\ mail.log_id # 0) =>
        email_logs[mail.log_id].status =
            (IF mail.returned = "True" THEN "sent" ELSE "failed")

\* a logged notification given up after the last attempt
C18_Witness ==
    /\ mail.pc = "returned" /\ mail.returned = "False"
    /\ mail.log_id # 0
    /\ mail.attempts_made = EMAIL_RETRY_ATTEMPTS
    /\ email_logs[mail.log_id].status = "failed"

\* C19: after the k-th failed attempt, k = 1 .. EMAIL_RETRY_ATTEMPTS - 1,
\* send_email waits EMAIL_RETRY_DELAY_SECONDS * 2^(k-1) seconds, and it does
\* not wait after the last attempt.
C19_ExponentialBackoff ==
    /\ \A k \in 1..Len(mail.waits) :
          /\ k <= EMAIL_RETRY_ATTEMPTS - 1
          /\ mail.waits[k] = EMAIL_RETRY_DELAY_SECONDS * 2 ^ (k - 1)
    /\ mail.pc # "raised" =>
          Len(mail.waits) = IF FailedAttempts <= EMAIL_RETRY_ATTEMPTS - 1
                            THEN FailedAttempts
                            ELSE EMAIL_RETRY_ATTEMPTS - 1

\* all attempts failed: two waits, the second double the first
C19_Witness ==
    /\ mail.pc = "returned" /\ mail.returned = "False"
    /\ FailedAttempts = EMAIL_RETRY_ATTEMPTS
    /\ mail.waits = <<EMAIL_RETRY_DELAY_SECONDS, 2 * EMAIL_RETRY_DELAY_SECONDS>>

\* C20: when send_email gives up, the retry_count of its EmailLog row is the
\* number of failed attempts made, and a notification delivered at the
\* first attempt has retry_count 0.
C20_RetryCountIsFailedAttempts ==
    (mail.pc = "returned" /\ mail.log_id # 0) =>
        /\ (mail.returned = "False" /\ mail.attempts_made > 0) =>
              email_logs[mail.log_id].retry_count = FailedAttempts
        /\ (mail.returned = "True" /\ mail.attempts_made = 1) =>
              email_logs[mail.log_id].retry_count = 0

----------------------------------------------------------------------------
(* core/cache.py: CacheManager and @cached *)

\* results of a wrapped function: JSON data, JSON data holding a value that
\* json.dumps writes with default=str, an object that is pickled, None
CacheValues == {"plain", "with_uuid", "object", NONE}

\* key patterns of delete_pattern, by prefix
CachePatterns == {"user_progress", "pathways", "user_dashboard"}

\* set: json.dumps(value, default=str) for JSON types, else pickle.dumps
cache_dumps(value) ==
    CASE value = "plain" -> <<"json", "plain">>
      [] value = "with_uuid" -> <<"json", "with_uuid as str">>
      [] OTHER -> <<"pickle", value>>

\* get: json.loads, or pickle.loads when the bytes are no JSON
cache_loads(serialized) == serialized[2]

\* CacheManager.get_redis: the client kept, or made when the ping answers
get_redis(redis, up) ==
    IF redis = NONE THEN (IF up THEN "client" ELSE NONE) ELSE redis

CacheResult(redis, store, failed, returned, count) ==
    [redis |-> redis, store |-> store, failed |-> failed, returned |-> returned, count |-> count]

cache_get_unguarded(redis, store, key, up) ==
    LET client == get_redis(redis, up)
    IN  IF store[key] = Absent
        THEN CacheResult(client, store, ~up, NONE, 0)
        ELSE CacheResult(client, store, ~up, cache_loads(store[key]), 0)

\* CacheManager.get
cache_get(redis, store, key, up) ==
    LET client == get_redis(redis, up)
    IN  IF client = NONE THEN CacheResult(client, store, TRUE, NONE, 0)
        ELSE IF ~up THEN CacheResult(client, store, TRUE, NONE, 0)
        ELSE IF store[key] = Absent THEN CacheResult(client, store, FALSE, NONE, 0)
        ELSE CacheResult(client, store, FALSE, cache_loads(store[key]), 0)

\* CacheManager.set
cache_set(redis, store, key, value, up) ==
    LET client == get_redis(redis, up)
    IN  IF client = NONE THEN CacheResult(client, store, TRUE, "False", 0)
        ELSE IF ~up THEN CacheResult(client, store, TRUE, "False", 0)
        ELSE CacheResult(client, [store EXCEPT ![key] = cache_dumps(value)], FALSE, "True", 0)

\* CacheManager.delete
cache_delete(redis, store, key, up) ==
    LET client == get_redis(redis, up)
    IN  IF client = NONE THEN CacheResult(client, store, TRUE, "False", 0)
        ELSE IF ~up THEN CacheResult(client, store, TRUE, "False", 0)
        ELSE CacheResult(client, [store EXCEPT ![key] = Absent], FALSE, "True", 0)

\* CacheManager.delete_pattern
cache_delete_pattern(redis, store, pattern, up) ==
    LET client == get_redis(redis, up)
        keys == {k \in CacheKeys : k[1] = pattern /\ store[k] # Absent}
    IN  IF client = NONE THEN CacheResult(client, store, TRUE, NONE, 0)
        ELSE IF ~up THEN CacheResult(client, store, TRUE, NONE, 0)
        ELSE CacheResult(client, [k \in CacheKeys |-> IF k \in keys THEN Absent ELSE store[k]],
                         FALSE, NONE, Cardinality(keys))

\* a call of a CacheManager method: op, its result and the log of the step
CacheCall(op, key, r) ==
    /\ cache_redis' = r.redis
    /\ cache_store' = r.store
    /\ cache_last' = [NoCacheCall EXCEPT !.op = op, !.key = key, !.failed = r.failed,
                                         !.returned = r.returned, !.count = r.count]
    /\ UNCHANGED <<auth_vars, prog_vars, sub_vars, mail_vars, oauth_vars, cprow>>

CacheGet(key, up) == CacheCall("get", key, cache_get(cache_redis, cache_store, key, up))

CacheSet(key, value, up) ==
    CacheCall("set", key, cache_set(cache_redis, cache_store, key, value, up))

CacheDelete(key, up) == CacheCall("delete", key, cache_delete(cache_redis, cache_store, key, up))

CacheDeletePattern(pattern, up) ==
    CacheCall("delete_pattern", <<pattern, "*">>,
              cache_delete_pattern(cache_redis, cache_store, pattern, up))

\* the wrapper of @cached: get, and on a miss the wrapped function and set
CachedCall(key, result, up_get, up_set) ==
    LET got == cache_get(cache_redis, cache_store, key, up_get)
        put == cache_set(got.redis, got.store, key, result, up_set)
    IN
    /\ UNCHANGED <<auth_vars, prog_vars, sub_vars, mail_vars, oauth_vars, cprow>>
    /\ IF got.returned # NONE
       THEN /\ cache_redis' = got.redis
            /\ cache_store' = got.store
            /\ cache_last' = [NoCacheCall EXCEPT !.op = "cached", !.key = key,
                                                 !.failed = got.failed,
                                                 !.returned = got.returned,
                                                 !.func_result = result]
       ELSE /\ cache_redis' = put.redis
            /\ cache_store' = put.store
            /\ cache_last' = [NoCacheCall EXCEPT !.op = "cached", !.key = key,
                                                 !.failed = got.failed \/ put.failed,
                                                 !.returned = result, !.func_calls = 1,
                                                 !.func_result = result]

CacheInit ==
    /\ AuthIdle
    /\ today = 0
    /\ pathways = [p \in Pathways |-> MaxTotalModules]
    /\ resource_completions = [k \in Learners \X Resources |-> NoResourceCompletion]
    /\ EmptyTables
    /\ ExtIdle

CacheNext ==
    \/ \E key \in CacheKeys, up \in BOOLEAN : CacheGet(key, up)
    \/ \E key \in CacheKeys, value \in CacheValues, up \in BOOLEAN : CacheSet(key, value, up)
    \/ \E key \in CacheKeys, up \in BOOLEAN : CacheDelete(key, up)
    \/ \E pattern \in CachePatterns, up \in BOOLEAN : CacheDeletePattern(pattern, up)
    \/ \E key \in CacheKeys, result \in CacheValues, up_get, up_set \in BOOLEAN :
          CachedCall(key, result, up_get, up_set)

CacheSpec == CacheInit /\ [][CacheNext]_vars

\* C21: when Redis is unreachable or a Redis call fails, get returns None,
\* set and delete return False, delete_pattern returns 0, and a function
\* wrapped by @cached is called exactly once and its result is returned.
C21_CacheDegradesGracefully ==
    cache_last.failed =>
        /\ cache_last.op = "get" => cache_last.returned = NONE
        /\ cache_last.op \in {"set", "delete"} => cache_last.returned = "False"
        /\ cache_last.op = "delete_pattern" => cache_last.count = 0
        /\ cache_last.op = "cached" =>
              /\ cache_last.func_calls = 1
              /\ cache_last.returned = cache_last.func_result

\* a wrapped call whose key is stored while Redis does not answer
C21_Witness ==
    /\ cache_last.op = "cached" /\ cache_last.failed
    /\ cache_store[cache_last.key] # Absent
    /\ cache_last.func_calls = 1
    /\ cache_last.returned = "with_uuid"

----------------------------------------------------------------------------
(* api/v1/auth.py signup, api/v1/oauth.py, crud/oauth.py: accounts *)

\* users created
MaxUsers == 3

PASSWORD_MIN_LENGTH == 8
PASSWORD_MAX_LENGTH == 128

\* email addresses as typed, and str.lower() on them
SignupEmails == {"a@x.io", "A@x.io", "b@x.io"}
lower(email) == IF email = "A@x.io" THEN "a@x.io" ELSE email

\* Google's `sub`, absent or one of two identities
GoogleIds == {"g1", "g2"}

\* access tokens Google hands out
GoogleTokens == {"t1", "t2"}

\* passwords by what validate_password_strength looks at
SignupPasswords ==
    {[len |-> 8, has_upper |-> TRUE, has_lower |-> TRUE, has_digit |-> TRUE, has_special |-> TRUE],
     [len |-> 8, has_upper |-> TRUE, has_lower |-> TRUE, has_digit |-> TRUE, has_special |-> FALSE],
     [len |-> 7, has_upper |-> TRUE, has_lower |-> TRUE, has_digit |-> TRUE, has_special |-> TRUE]}

\* UserSignUp.password: Field(min_length=8, max_length=128)
UserSignUp(password) == password.len >= 8 /\ password.len <= 128

validate_password_strength(password) ==
    /\ ~(password.len < PASSWORD_MIN_LENGTH)
    /\ ~(password.len > PASSWORD_MAX_LENGTH)
    /\ password.has_upper /\ password.has_lower /\ password.has_digit /\ password.has_special

get_user_by_email_in_exact(rows, email) ==
    IF \E i \in 1..Len(rows) : rows[i].email = email
    THEN CHOOSE i \in 1..Len(rows) : rows[i].email = email
    ELSE 0

\* get_user_by_email on the growing table: the id of the row whose email is email.lower(), 0 for None
get_user_by_email_in(rows, email) ==
    IF \E i \in 1..Len(rows) : rows[i].email = lower(email)
    THEN CHOOSE i \in 1..Len(rows) : rows[i].email = lower(email)
    ELSE 0

\* the users table accepts a row: no row has its email
users_email_unique(rows, email) == \A i \in 1..Len(rows) : rows[i].email # email

\* get_user_by_oauth: the user joined to the account of the identity, 0 for None
get_user_by_oauth(accounts, provider, provider_account_id) ==
    LET found == {i \in 1..Len(accounts) :
                     /\ accounts[i].provider = provider
                     /\ accounts[i].provider_account_id = provider_account_id}
    IN  IF found = {} THEN 0 ELSE accounts[CHOOSE i \in found : TRUE].user_id

\* update_oauth_tokens: the tokens of the rows of the identity
update_oauth_tokens(accounts, provider, provider_account_id, access_token) ==
    [i \in 1..Len(accounts) |->
        IF accounts[i].provider = provider /\ accounts[i].provider_account_id = provider_account_id
        THEN [accounts[i] EXCEPT !.access_token = access_token]
        ELSE accounts[i]]

update_user_last_login(rows, user_id) == [rows EXCEPT ![user_id].last_login = "now"]

SignupLog(op, email, sub, code, token_sub) ==
    [op |-> op, email |-> email, sub |-> sub, code |-> code, token_sub |-> token_sub]

\* POST /signup
Signup(email, password) ==
    /\ Len(user_table) < MaxUsers
    /\ UNCHANGED <<auth_vars, prog_vars, sub_vars, mail_vars, cache_vars, oauth_accounts, cprow>>
    /\ IF ~UserSignUp(password)
       THEN /\ oauth_last' = SignupLog("signup", email, NONE, 422, 0)
            /\ UNCHANGED user_table
       ELSE IF get_user_by_email_in(user_table, email) # 0
       THEN /\ oauth_last' = SignupLog("signup", email, NONE, 400, 0)
            /\ UNCHANGED user_table
       ELSE IF ~validate_password_strength(password)
       THEN /\ oauth_last' = SignupLog("signup", email, NONE, 400, 0)
            /\ UNCHANGED user_table
       ELSE IF ~users_email_unique(user_table, lower(email))
       THEN /\ oauth_last' = SignupLog("signup", email, NONE, 500, 0)
            /\ UNCHANGED user_table
       ELSE /\ user_table' = Append(user_table, [email |-> lower(email),
                                                 password_hash |-> "hash",
                                                 last_login |-> NONE])
            /\ oauth_last' = SignupLog("signup", email, NONE, 201, 0)

\* GET /google/callback from the user info on: find the user of the Google
\* account or create one, then issue tokens for that user
GoogleCallback(google_user_id, email, access_token) ==
    LET user == get_user_by_oauth(oauth_accounts, "google", google_user_id)
        new_id == Len(user_table) + 1
    IN
    /\ (user # 0 \/ Len(user_table) < MaxUsers)
    /\ UNCHANGED <<auth_vars, prog_vars, sub_vars, mail_vars, cache_vars, cprow>>
    /\ IF google_user_id = NONE
       THEN /\ oauth_last' = SignupLog("google", email, google_user_id, 400, 0)
            /\ UNCHANGED <<user_table, oauth_accounts>>
       ELSE IF user # 0
       THEN /\ oauth_accounts' =
                  update_oauth_tokens(oauth_accounts, "google", google_user_id, access_token)
            /\ user_table' = update_user_last_login(user_table, user)
            /\ oauth_last' = SignupLog("google", email, google_user_id, 307, user)
       ELSE IF ~users_email_unique(user_table, lower(email))
       THEN /\ oauth_last' = SignupLog("google", email, google_user_id, 500, 0)
            /\ UNCHANGED <<user_table, oauth_accounts>>
       ELSE /\ user_table' = Append(user_table, [email |-> lower(email),
                                                 password_hash |-> NONE,
                                                 last_login |-> NONE])
            /\ oauth_accounts' =
                  Append(oauth_accounts, [user_id |-> new_id, provider |-> "google",
                                          provider_account_id |-> google_user_id,
                                          access_token |-> access_token])
            /\ oauth_last' = SignupLog("google", email, google_user_id, 307, new_id)

AccountsInit ==
    /\ AuthIdle
    /\ today = 0
    /\ pathways = [p \in Pathways |-> MaxTotalModules]
    /\ resource_completions = [k \in Learners \X Resources |-> NoResourceCompletion]
    /\ EmptyTables
    /\ ExtIdle

AccountsNext ==
    \/ \E email \in SignupEmails, password \in SignupPasswords : Signup(email, password)
    \/ \E g \in GoogleIds \cup {NONE}, email \in SignupEmails, t \in GoogleTokens :
          GoogleCallback(g, email, t)

AccountsSpec == AccountsInit /\ [][AccountsNext]_vars

----------------------------------------------------------------------------
(* Accounts: claims *)

\* the OAuthAccount rows of a Google identity
IdentityAccounts(accounts, g) ==
    {i \in 1..Len(accounts) :
        accounts[i].provider = "google" /\ accounts[i].provider_account_id = g}

----------------------------------------------------------------------------
(* crud/progress.py: mark_module_complete, concurrent writers of one row *)

\* POST /modules/complete of two requests in flight, cut where the progress
\* row is loaded: the handler up to get_user_progress (crud/progress.py:147-170)
\* for a user who has a progress row ...
CompleteLoad(c, u, m, p, minutes) ==
    LET args == [NoArgs EXCEPT !.module_id = m, !.pathway_id = p]
    IN
    /\ cpc[c].pc = "idle"
    /\ user_progress[<<u, p>>].exists
    /\ incomplete_resources(u, m) = {} /\ missing_uploads(u, m) = {}
    /\ existing_completions(module_completions, u, m) = 0
    /\ cpc' = [cpc EXCEPT ![c] = [pc |-> "loaded", user |-> u, args |-> args,
                                  minutes |-> minutes]]
    /\ cprow' = [cprow EXCEPT ![c] = user_progress[<<u, p>>]]
    /\ prog_last' = ProgLog("lookup", u, args, 0, 0, "none")
    /\ UNCHANGED <<today, pathways, resource_completions, auth_vars, sub_vars, mail_vars,
                   cache_vars, oauth_vars, prog_tables>>

\* ... and the rest of it (crud/progress.py:176-196): the loaded row is
\* changed and written back
CompleteStore(c) ==
    /\ cpc[c].pc = "loaded"
    /\ cpc' = [cpc EXCEPT ![c] = [pc |-> "idle", user |-> "u1", args |-> NoArgs,
                                  minutes |-> NULL]]
    /\ cprow' = [cprow EXCEPT ![c] = NoProgress]
    /\ UNCHANGED <<today, pathways, resource_completions, auth_vars, sub_vars, mail_vars,
                   cache_vars, oauth_vars>>
    /\ CompleteInsertFrom(cpc[c].user, cpc[c].args.module_id, cpc[c].args.pathway_id,
                          cpc[c].minutes, "complete", cprow[c])

LostUpdateNext ==
    \/ \E u \in Learners, r \in {"r1", "r2"} : CompleteResource(u, r)
    \/ \E u \in Learners :
          /\ \A i \in 1..Len(resource_submissions) : resource_submissions[i].user_id # u
          /\ UploadResourceFile(u, "r2", <<"a", ".", "p", "d", "f">>, BytesPerMB)
    \/ \E u \in Learners : StartPathway(u, "p1")
    \/ \E c \in CProcs, u \in Learners, m \in {"m1", "m2"}, t \in MinuteInputs :
          CompleteLoad(c, u, m, "p1", t)
    \/ \E c \in CProcs : CompleteStore(c)

LostUpdateSpec == ModuleGateInit /\ [][LostUpdateNext]_vars

----------------------------------------------------------------------------
(* Progress: further claims *)

\* C23: a mark_module_complete call that creates a ModuleCompletion in a
\* pathway with total_modules > 0 leaves completed_modules exactly one more
\* than before and progress_percentage equal to completed_modules * 100 /
\* total_modules truncated to an integer.
C23_IncrementAndPercentage ==
    [][(/\ prog_last'.op = "complete"
        /\ module_completions' # module_completions
        /\ pathways[prog_last'.args.pathway_id] > 0)
       => LET key == <<prog_last'.user, prog_last'.args.pathway_id>>
              total == pathways[prog_last'.args.pathway_id]
          IN  /\ user_progress'[key].completed_modules =
                    user_progress[key].completed_modules + 1
              /\ user_progress'[key].progress_percentage =
                    (user_progress'[key].completed_modules * 100) \div total]_vars

\* the ModuleCompletion rows of a user in a pathway
CompletionRows(u, p) ==
    SetSum([k \in DOMAIN module_completions |-> module_completions[k]],
           {k \in DOMAIN module_completions : k[1] = u /\ k[3] = p})

\* C24: once the mark-module-complete requests in flight have finished,
\* completed_modules of every progress row equals the number of the user's
\* ModuleCompletion rows for the pathway, also after two requests for
\* different modules of the pathway ran concurrently (no module completed
\* twice).
C24_NoLostIncrement ==
    (/\ \A c \in CProcs : cpc[c].pc = "idle"
     /\ \A k \in DOMAIN module_completions : module_completions[k] <= 1) =>
        \A u \in Learners, p \in Pathways :
            user_progress[<<u, p>>].exists =>
                user_progress[<<u, p>>].completed_modules = CompletionRows(u, p)


----------------------------------------------------------------------------
(* api/v1/auth.py: POST /change-password *)

\* the new passwords a client sends
NewPasswords == {"pw2", "short", "plain"}

\* a password by what the schema and validate_password_strength look at
password_shape(password) ==
    CASE password = "short" ->
            [len |-> 7, has_upper |-> TRUE, has_lower |-> TRUE, has_digit |-> TRUE, has_special |-> TRUE]
      [] password = "plain" ->
            [len |-> 8, has_upper |-> TRUE, has_lower |-> TRUE, has_digit |-> TRUE, has_special |-> FALSE]
      [] OTHER ->
            [len |-> 8, has_upper |-> TRUE, has_lower |-> TRUE, has_digit |-> TRUE, has_special |-> TRUE]

\* PasswordChange.new_password: Field(min_length=8, max_length=128)
PasswordChange(new_password) ==
    password_shape(new_password).len >= 8 /\ password_shape(new_password).len <= 128

update_user_password(row, new_password) ==
    [row EXCEPT !.password_hash = get_password_hash(new_password)]

\* the UPDATE without its user_id condition
revoke_all_user_tokens_everyone(rows, user_id, t) ==
    {IF r.revoked_at = NULL THEN [r EXCEPT !.revoked_at = t] ELSE r : r \in rows}

revoke_all_user_tokens(rows, user_id, t) ==
    {IF r.user_id = user_id /\ r.revoked_at = NULL THEN [r EXCEPT !.revoked_at = t] ELSE r
        : r \in rows}

ChangePassword(u, current_password, new_password) ==
    LET log(code) == AuthLog("change_password", u,
                             verify_password(current_password, users[u].password_hash),
                             NoToken, code, NoToken)
    IN
    /\ Authenticated(u)
    /\ UNCHANGED <<issued, next_jti, now, ticks, rpc, prog_vars, ext_vars>>
    /\ IF ~PasswordChange(new_password)
       THEN /\ auth_last' = log(422)
            /\ UNCHANGED <<users, refresh_tokens>>
       ELSE IF ~coroutine_truth(verify_password(current_password, users[u].password_hash))
       THEN /\ auth_last' = log(400)
            /\ UNCHANGED <<users, refresh_tokens>>
       ELSE IF ~validate_password_strength(password_shape(new_password))
       THEN /\ auth_last' = log(400)
            /\ UNCHANGED <<users, refresh_tokens>>
       ELSE /\ users' = [users EXCEPT ![u] = update_user_password(users[u], new_password)]
            /\ refresh_tokens' = revoke_all_user_tokens(refresh_tokens, u, now)
            /\ auth_last' = log(200)

ChangePasswordNext ==
    \/ \E e \in Emails, p \in Passwords : Login(e, p)
    \/ \E t \in Presentable : Refresh(t)
    \/ \E u \in Users, t \in Presentable : Logout(u, t)
    \/ \E u \in Users, p \in Passwords, n \in NewPasswords : ChangePassword(u, p, n)
    \/ Tick

ChangePasswordSpec == AuthServiceInit /\ [][ChangePasswordNext]_vars

----------------------------------------------------------------------------
(* Auth: further claims *)

\* the stored rows of a presented token
TokenRows(rows, token) == {r \in rows : r.token_hash = hash_token(token)}

\* C26: a successful POST /change-password by U (a step that writes its log entry) leaves every refresh token of
\* U revoked and every other user's row as it was; a revoked row is never
\* un-revoked; and a POST /refresh presenting a token whose row is revoked is
\* answered 401. So every refresh token issued to U before the change is
\* rejected at each later /refresh, and other users' tokens stay valid.
C26_ChangePasswordRevokes ==
    /\ [][(auth_last' # auth_last /\ auth_last'.op = "change_password" /\ auth_last'.code = 200) =>
            /\ \A r \in refresh_tokens' : r.user_id = auth_last'.who => r.revoked_at # NULL
            /\ \A r \in refresh_tokens : r.user_id # auth_last'.who => r \in refresh_tokens'
            /\ Cardinality(refresh_tokens') = Cardinality(refresh_tokens)]_vars
    /\ [][\A r \in refresh_tokens : r.revoked_at # NULL =>
            \E q \in refresh_tokens' : q.token_hash = r.token_hash /\ q.revoked_at # NULL]_vars
    /\ [][(/\ auth_last' # auth_last
           /\ auth_last'.op = "refresh"
           /\ TokenRows(refresh_tokens, auth_last'.presented) # {}
           /\ \A r \in TokenRows(refresh_tokens, auth_last'.presented) : r.revoked_at # NULL)
            => auth_last'.code = 401]_vars

\* a refresh token of u1 is refused after u1 changed the password, while u2
\* still holds an unrevoked one
C26_Witness ==
    /\ auth_last.op = "refresh"
    /\ auth_last.code = 401
    /\ auth_last.presented.type = "refresh"
    /\ auth_last.presented.sub = "u1"
    /\ users["u1"].password_hash = get_password_hash("pw2")
    /\ \A r \in refresh_tokens : r.user_id = "u1" => r.revoked_at # NULL
    /\ \E r \in refresh_tokens : r.user_id = "u2" /\ r.revoked_at = NULL


----------------------------------------------------------------------------
(* Progress: streak and completion stamps *)

\* C28: with activity dates that never go back, every streak row has
\* longest_streak >= current_streak >= 1, and no step lowers a row's
\* longest_streak.
C28_StreakOrdered ==
    /\ [](\A u \in Learners :
            learning_streaks[u].exists =>
                /\ learning_streaks[u].longest_streak >= learning_streaks[u].current_streak
                /\ learning_streaks[u].current_streak >= 1)
    /\ [][\A u \in Learners :
            learning_streaks[u].exists =>
                /\ learning_streaks'[u].exists
                /\ learning_streaks'[u].longest_streak >= learning_streaks[u].longest_streak]_vars

\* a streak of at least two days was broken: the row keeps the longer record
C28_Witness ==
    /\ learning_streaks["u1"].exists
    /\ learning_streaks["u1"].current_streak = 1
    /\ learning_streaks["u1"].longest_streak > learning_streaks["u1"].current_streak
    /\ learning_streaks["u1"].last_activity_date = today


\* C29: whatever start-pathway, mark-module-complete and
\* update-pathway-progress requests have committed, a UserProgress row whose
\* progress_percentage is 100 has a completed_at.
C29_CompletedStamped ==
    \A u \in Learners, p \in Pathways :
        (user_progress[<<u, p>>].exists /\ user_progress[<<u, p>>].progress_percentage = 100)
            => user_progress[<<u, p>>].completed_at # NULL

\* an update request has just set a row to 100 percent, and the row is stamped
C29_Witness ==
    /\ prog_last.op = "update"
    /\ prog_last.code = 200
    /\ \E p \in Pathways :
          /\ prog_last.args.pathway_id = p
          /\ user_progress[<<"u1", p>>].progress_percentage = 100
          /\ user_progress[<<"u1", p>>].completed_at # NULL


----------------------------------------------------------------------------
(* crud/resource.py, api/v1/resources.py: the review queue *)

\* what the dashboard's reviewer writes into submission_status
RequeueStatusInputs == {"approved", "uploaded"}

\* the WHERE clause without its reviewed_at condition
get_pending_submissions_by_status(rows, pathway_id) ==
    {i \in 1..Len(rows) :
        /\ rows[i].submission_status = "uploaded"
        /\ rows[i].deleted_at = NULL
        /\ pathway_id # NONE =>
              module_pathway[resource_catalog[rows[i].resource_id].module_id] = pathway_id}

\* get_pending_submissions: the ids of the rows the query selects, before
\* limit and offset cut a page out of them
get_pending_submissions(rows, pathway_id) ==
    {i \in 1..Len(rows) :
        /\ rows[i].submission_status = "uploaded"
        /\ rows[i].reviewed_at = NULL
        /\ rows[i].deleted_at = NULL
        /\ pathway_id # NONE =>
              module_pathway[resource_catalog[rows[i].resource_id].module_id] = pathway_id}

soft_delete_submission(rows, id) ==
    [rows EXCEPT ![id] = [@ EXCEPT !.deleted_at = utc_second]]

\* DELETE /users/me/submissions/{submission_id}
DeleteSubmission(u, id) ==
    LET args == [NoSubArgs EXCEPT !.id = id]
    IN
    /\ prog_last' = NoProgressRequest
    /\ UNCHANGED <<today, pathways, cpc, prog_tables, resource_completions, auth_vars,
                   mail_vars, svc_vars, upload_rules, utc_second, module_approvals, gcs_objects>>
    /\ IF id \notin 1..Len(resource_submissions)
       THEN /\ sub_last' = SubLog("delete", u, args, 404)
            /\ UNCHANGED resource_submissions
       ELSE IF resource_submissions[id].user_id # u
       THEN /\ sub_last' = SubLog("delete", u, args, 403)
            /\ UNCHANGED resource_submissions
       ELSE /\ resource_submissions' = soft_delete_submission(resource_submissions, id)
            /\ sub_last' = SubLog("delete", u, args, 200)

\* GET /admin/submissions/pending: reads, writes nothing
GetPendingSubmissions(u, pathway_id) ==
    /\ prog_last' = NoProgressRequest
    /\ sub_last' = SubLog("pending", u, [NoSubArgs EXCEPT !.resource_id = pathway_id], 200)
    /\ UNCHANGED <<today, pathways, cpc, prog_tables, resource_completions, auth_vars,
                   mail_vars, svc_vars, upload_rules, utc_second, module_approvals, gcs_objects,
                   resource_submissions>>

ReviewQueueNext ==
    \/ \E u \in Learners :
          /\ Len(resource_submissions) < MaxReviewed
          /\ UploadResourceFile(u, "r2", <<"a", ".", "p", "d", "f">>, BytesPerMB)
    \/ \E u \in Users, id \in 1..(MaxReviewed + 1), st \in {"approved", "bogus"} :
          ReviewSubmission(u, id, st, "pass")
    \/ \E id \in 1..(MaxReviewed + 1), st \in RequeueStatusInputs : DashboardReview(id, st, "pass")
    \/ \E u \in Users, id \in 1..(MaxReviewed + 1) : DeleteSubmission(u, id)
    \/ \E u \in Users, p \in {NONE, "p1"} : GetPendingSubmissions(u, p)

ReviewQueueSpec == ReviewInit /\ [][ReviewQueueNext]_vars

\* the review of this step was committed for a stored submission
ReviewedNow(id) ==
    /\ sub_last' # sub_last
    /\ sub_last'.op \in {"review", "dashboard_review"}
    /\ sub_last'.code = 200
    /\ sub_last'.args.id = id
    /\ id \in 1..Len(resource_submissions)

\* C30: a review committed through the API or the dashboard stamps
\* reviewed_at; no later review, re-review or soft delete clears reviewed_at;
\* and get_pending_submissions, with or without a pathway filter, returns no
\* submission whose reviewed_at is set. So a reviewed submission is never
\* returned as pending again.
C30_ReviewedNeverPending ==
    /\ [][\A id \in 1..(MaxReviewed + 1) :
            ReviewedNow(id) => resource_submissions'[id].reviewed_at # NULL]_vars
    /\ [][\A id \in 1..Len(resource_submissions) :
            resource_submissions[id].reviewed_at # NULL =>
                resource_submissions'[id].reviewed_at # NULL]_vars
    /\ [](\A id \in 1..Len(resource_submissions), p \in {NONE, "p1", "p2"} :
            resource_submissions[id].reviewed_at # NULL =>
                id \notin get_pending_submissions(resource_submissions, p))

\* a reviewed submission was put back to 'uploaded' by the dashboard and the
\* queue is read: the submission is not in it
C30_Witness ==
    /\ sub_last.op = "pending"
    /\ \E id \in 1..Len(resource_submissions) :
          /\ resource_submissions[id].reviewed_at # NULL
          /\ resource_submissions[id].submission_status = "uploaded"
          /\ resource_submissions[id].deleted_at = NULL
          /\ id \notin get_pending_submissions(resource_submissions, NONE)

============================================================================
